---- MODULE Spec2Model ----
(***************************************************************************)
(* Verification model of RDNSx (rdnsx-core): the resolver pool, the        *)
(* concurrent processor, its rate limiter and adaptive batch sizer, and the *)
(* response cache with its caching client.                                 *)
(***************************************************************************)
EXTENDS Integers, Sequences, FiniteSets, TLC

(***************************************************************************)
(* Bounds of the model.                                                    *)
(***************************************************************************)
\* number of tasks calling ResolverPool::query concurrently
NumCallers == 3
\* options.concurrency of the modelled pool (the size of its semaphore)
PoolConcurrency == 2

\* longest input given to ConcurrentProcessor::process_stream
MaxItems == 3
\* largest config.max_concurrent of the modelled processors
MaxConcurrent == 2
\* largest config.batch_size of the modelled processors
MaxBatchSize == 2
\* threads that call RateLimiter::wait on one shared limiter
NumWaiters == 2
\* wait() calls observed on one limiter
MaxWaits == 4
\* largest max_size given to AdaptiveBatchSizer::new
MaxSizerSize == 8
\* adjust() calls observed on one AdaptiveBatchSizer
MaxAdjusts == 3
\* threads sharing one DnsCache, tasks sharing one CachedDnsClient
NumCacheThreads == 2
\* largest max_size given to DnsCache::new
MaxCacheSize == 2
\* largest max_size of the caches whose entries are overwritten
MaxOverwriteSize == 3
\* seconds that pass in one step of the clock
TickSeconds == 100
\* tasks calling analyze_wildcard on one WildcardFilter
NumAnalyzers == 2
\* longest record list given to WildcardFilter::filter
MaxRecords == 3
\* largest threshold of the filters given record lists
MaxThreshold == 2
\* most hosts of the wildcard zone in the input of a query scan
MaxScanWild == 11
\* most records in a Lookup given to QueryEngine::query
MaxLookup == 2
\* export() calls made on one exporter
MaxExports == 4
\* largest batch_size of the modelled exporters
MaxSinkBatch == 2
\* most characters, line ends included, of the input of a DomainStreamer
MaxInputLen == 5
\* most values of --record-type in one request
MaxRequested == 2
\* most records in all_records when the query command writes its output
MaxRunRecords == 2
\* CassandraExporter instances alive in the process
NumExporters == 2
\* largest number of workers of one of those instances
MaxFanWorkers == 3
\* export() calls made on those instances together
MaxFanExports == 5
\* tasks that call export() and flush() on one shared exporter
NumExportTasks == 2
\* export() calls made by those tasks together
MaxConcExports == 3
\* config.num_workers of the modelled CassandraExporter
NumWorkers == 2
\* largest config.retry_attempts of the modelled CassandraExporter
MaxRetryAttempts == 2

Callers == 1..NumCallers

VARIABLES
    \* ---- ResolverPool (resolver.rs) ----
    pool,          \* the ResolverPool built by ResolverPool::new
    system_conf,   \* whether TokioAsyncResolver::tokio_from_system_conf() was Ok
    behaviour,     \* how each configured resolver responds during this run
    semaphore,     \* available permits of pool.semaphore
    qpc,           \* position of each caller inside ResolverPool::query
    qdomain,       \* the `domain` argument of each caller's query
    qidx,          \* loop position in try_backup_resolvers
    qcontacted,    \* who answered each lookup() the query awaited, in order
    qresult,       \* what the query returned
    \* ---- ConcurrentProcessor (concurrency.rs) ----
    pcfg,          \* the ConcurrencyConfig of the processor
    pitems,        \* the number of items of the input; the items are 1..pitems
    ppc,           \* position of process_stream
    chunk_start,   \* first item of the chunk process_batch is working on
    next_item,     \* next item the buffer_unordered adaptor pulls
    ipc,           \* position of each item's future
    psem,          \* available permits of processor.semaphore
    permit_held,   \* items whose future owns a permit
    gate_passed,   \* items whose limiter.wait() has returned
    limiter,       \* the RateLimiter of this process_stream call
    op_calls,      \* how often query_fn was invoked on each item
    op_outcome,    \* what the item's timeout(query_fn(item)) gave
    batch_results, \* the results the batch has collected, in completion order
    all_records,   \* all_records of process_stream
    presult,       \* what process_stream returned
    \* ---- RateLimiter used on its own (concurrency.rs) ----
    rl_rate,       \* requests_per_second given to RateLimiter::new
    rl,            \* the RateLimiter
    rl_pc,         \* position of each thread inside RateLimiter::wait
    rl_returns,    \* number of wait() calls that have returned
    rl_since_return, \* time since the latest return of wait()
    rl_gap,        \* time between the latest return and the one before
    rl_span,       \* time since the first return of wait()
    \* ---- AdaptiveBatchSizer (concurrency.rs) ----
    sizer,         \* the AdaptiveBatchSizer
    sz_calls,      \* number of adjust() calls made
    sz_qps,        \* the current_qps argument of the latest adjust()
    sz_prev,       \* current_size before the latest adjust()
    \* ---- DnsCache and CachedDnsClient (cache.rs) ----
    ccfg,          \* max_size and default_ttl of the DnsCache
    cache,         \* the HashMap behind DnsCache.cache
    writers,       \* number of threads inside DnsCache::put
    inflight,      \* per key, the tasks awaiting the inner query for it
    last_put,      \* per key, the latest put and whether it may have been undone
    evicted_for,   \* the key of the latest put, if that put called evict_oldest
    last_get,      \* the get that has just returned: its key and its result
    wcall,         \* the CachedDnsClient::query call that has just looked
                   \* into the cache, or has just returned an error
    inner_calls,   \* per key, the inner queries invoked while w_quiet
    w_quiet,       \* no time has passed and nothing was cleared, evicted,
                   \* answered with an error or cached with ttl 0 so far
    \* ---- WildcardFilter (wildcard.rs) and the query scan (commands/query.rs) ----
    wf,            \* base_domain and threshold of the WildcardFilter
    patterns,      \* filter.patterns: what test_wildcard found per domain
    analysis_cache, \* filter.analysis_cache
    analyzing,     \* per zone, the analyze_wildcard calls past the cache check
    probe_rounds,  \* per zone, how often the five probes were issued
    first_ret,     \* per zone, the first analysis analyze_wildcard returned
    a_ret,         \* the analyze_wildcard call that has just returned
    f_in,          \* the records given to the latest filter() call
    f_out,         \* what that call returned
    scan_input,    \* the domains of a query scan
    scan_pos,      \* how many of them the per-domain closure has handled
    scan_output,   \* the records the scan has collected
    \* ---- QueryEngine (query.rs) ----
    eq,            \* the QueryEngine::query call that has just returned
    \* ---- ElasticsearchExporter and MongodbExporter (export/elasticsearch.rs, export/mongodb.rs) ----
    sink,          \* which buffered exporter this is, and its batch_size
    buffer,        \* exporter.buffer: the documents not yet sent
    store,         \* the documents the backing store has received, in order
    exports,       \* number of export() calls made; their records are 1..exports
    acked,         \* the records whose export() returned Ok
    last_op,       \* the export() or flush() call that has just returned
    writes,        \* the bulk requests sent so far: issuing call, size, result
    \* ---- CassandraExporter (export/cassandra.rs) ----
    cass_config,   \* batch_size, retry_attempts and num_workers of the CassandraConfig
    record_senders, \* per worker, the live senders of its channel
    channel,       \* per worker, the records sent and not yet received
    batch,         \* per worker, the batch the worker is collecting
    worker,        \* per worker, "running" or how its task has ended
    metrics,       \* the CassandraMetrics behind exporter.metrics
    table,         \* the records the cluster has written
    next_worker,   \* NEXT_WORKER; the records exported so far are 1..next_worker
    last_export,   \* whether the latest export() returned Ok
    flush_pc,      \* position of flush(): the worker it awaits, or its result
    pb,            \* the process_batch call that has just returned
    \* ---- one buffered exporter shared by concurrent tasks (export/elasticsearch.rs, export/mongodb.rs) ----
    cx_batch_size, \* self.batch_size of the shared exporter
    cx_lock,       \* the task that holds the MutexGuard of self.buffer, or NoTask
    cx_waiters,    \* the tasks waiting in self.buffer.lock(), first come first
    cx_buffer,     \* self.buffer
    cx_pc,         \* per task, where it is in export() / flush_buffer()
    cx_doc,        \* per task, the document its export() is about to push
    cx_sending,    \* per task, the documents of the bulk request it has sent
    cx_store,      \* the documents the backing store has received
    cx_bulk,       \* the bulk requests completed so far: size and result
    cx_exports,    \* number of export() calls made; their documents are 1..cx_exports
    \* ---- round-robin of several CassandraExporter instances (export/cassandra.rs) ----
    fan_senders,   \* per exporter instance, record_senders.len()
    fan_next,      \* NEXT_WORKER, the static of export()
    fan_routed,    \* per instance and worker, the number of records sent to it
    fan_last,      \* the instance and the worker_index of the latest export()
    \* ---- output and export loop of the query command (rdnsx/src/commands/query.rs) ----
    run_sinks,     \* the exporters the configuration has enabled
    run_n,         \* all_records.len(); the records are 1..run_n
    run_at,        \* where run() is: the call it makes next, its record and sink
    run_written,   \* the records passed to output.write_record, in order
    run_offered,   \* per sink, the records passed to its export(), in order
    run_failed,    \* the <<record, sink>> pairs whose export() returned Err
    run_flushed,   \* the sinks whose flush() has been called, in order
    run_out_err,   \* whether a call of the output writer returned Err
    run_exit,      \* the exit code of the process once run() has returned, else NoExit
    \* ---- record types of a request (rdnsx/src/commands/query.rs, rdnsx-core/src/types.rs) ----
    tq_args,       \* args.record_type, the values of --record-type
    tq_types,      \* the Vec<RecordType> of determine_record_types, NoneOpt before the call
    tq_wire,       \* the wire types of the record types converted so far, in order
    \* ---- DomainStreamer (rdnsx-core/src/concurrency.rs) ----
    sd_input,      \* the characters of the input the reader was opened on
    sd_unread,     \* the characters the reader has not read yet
    sd_yielded,    \* the items the iterator has yielded, in order
    sd_ended,      \* whether the iterator has returned None
    \* ---- DnsCache::put seen from its caller (rdnsx-core/src/cache.rs) ----
    put_ret        \* the put() call that has returned last: its key and the keys it found

poolVars == <<pool, system_conf, behaviour, semaphore, qpc, qdomain, qidx,
              qcontacted, qresult>>

procVars == <<pcfg, pitems, ppc, chunk_start, next_item, ipc, psem, permit_held,
              gate_passed, limiter, op_calls, op_outcome, batch_results,
              all_records, presult>>

rlVars == <<rl_rate, rl, rl_pc, rl_returns, rl_since_return, rl_gap, rl_span>>

sizerVars == <<sizer, sz_calls, sz_qps, sz_prev>>

cacheVars == <<ccfg, cache, writers, inflight, last_put, evicted_for,
               last_get, wcall,
               inner_calls, w_quiet>>

wildVars == <<wf, patterns, analysis_cache, analyzing, probe_rounds, first_ret,
              a_ret, f_in, f_out, scan_input, scan_pos, scan_output>>

engineVars == <<eq>>

bufVars == <<sink, buffer, store, exports, acked, last_op, writes>>

cassVars == <<cass_config, record_senders, channel, batch, worker, metrics, table, next_worker, last_export, flush_pc, pb>>

concVars == <<cx_batch_size, cx_lock, cx_waiters, cx_buffer, cx_pc, cx_doc, cx_sending, cx_store, cx_bulk, cx_exports>>

fanVars == <<fan_senders, fan_next, fan_routed, fan_last>>

runVars == <<run_sinks, run_n, run_at, run_written, run_offered, run_failed, run_flushed, run_out_err, run_exit>>

typeVars == <<tq_args, tq_types, tq_wire>>

streamVars == <<sd_input, sd_unread, sd_yielded, sd_ended>>

owVars == <<put_ret>>

vars == <<poolVars, procVars, rlVars, sizerVars, cacheVars, wildVars, engineVars, bufVars, cassVars, concVars, fanVars, runVars, typeVars, streamVars, owVars>>

\* what the operations of one component leave alone
notPoolVars == <<procVars, rlVars, sizerVars, cacheVars, wildVars, engineVars, bufVars, cassVars, concVars, fanVars, runVars, typeVars, streamVars, owVars>>
notProcVars == <<poolVars, rlVars, sizerVars, cacheVars, wildVars, engineVars, bufVars, cassVars, concVars, fanVars, runVars, typeVars, streamVars, owVars>>
notRlVars == <<poolVars, procVars, sizerVars, cacheVars, wildVars, engineVars, bufVars, cassVars, concVars, fanVars, runVars, typeVars, streamVars, owVars>>
notSizerVars == <<poolVars, procVars, rlVars, cacheVars, wildVars, engineVars, bufVars, cassVars, concVars, fanVars, runVars, typeVars, streamVars, owVars>>
notCacheVars == <<poolVars, procVars, rlVars, sizerVars, wildVars, engineVars, bufVars, cassVars, concVars, fanVars, runVars, typeVars, streamVars, owVars>>
notWildVars == <<poolVars, procVars, rlVars, sizerVars, cacheVars, engineVars, bufVars, cassVars, concVars, fanVars, runVars, typeVars, streamVars, owVars>>
notEngineVars == <<poolVars, procVars, rlVars, sizerVars, cacheVars, wildVars, bufVars, cassVars, concVars, fanVars, runVars, typeVars, streamVars, owVars>>
notBufferedVars == <<poolVars, procVars, rlVars, sizerVars, cacheVars, wildVars, engineVars, cassVars, concVars, fanVars, runVars, typeVars, streamVars, owVars>>
notCassVars == <<poolVars, procVars, rlVars, sizerVars, cacheVars, wildVars, engineVars, bufVars, concVars, fanVars, runVars, typeVars, streamVars, owVars>>
notConcVars == <<poolVars, procVars, rlVars, sizerVars, cacheVars, wildVars, engineVars, bufVars, cassVars, fanVars, runVars, typeVars, streamVars, owVars>>
notFanVars == <<poolVars, procVars, rlVars, sizerVars, cacheVars, wildVars, engineVars, bufVars, cassVars, concVars, runVars, typeVars, streamVars, owVars>>
notRunVars == <<poolVars, procVars, rlVars, sizerVars, cacheVars, wildVars, engineVars, bufVars, cassVars, concVars, fanVars, typeVars, streamVars, owVars>>
notTypeVars == <<poolVars, procVars, rlVars, sizerVars, cacheVars, wildVars, engineVars, bufVars, cassVars, concVars, fanVars, runVars, streamVars, owVars>>
notStreamVars == <<poolVars, procVars, rlVars, sizerVars, cacheVars, wildVars, engineVars, bufVars, cassVars, concVars, fanVars, runVars, typeVars, owVars>>
notOwVars == <<poolVars, procVars, rlVars, sizerVars, cacheVars, wildVars, engineVars, bufVars, cassVars, concVars, fanVars, runVars, typeVars, streamVars>>
notPutVars == <<poolVars, procVars, rlVars, sizerVars, wildVars, engineVars, bufVars, cassVars, concVars, fanVars, runVars, typeVars, streamVars>>

(***************************************************************************)
(* utils::parse_resolver and ResolverPool::new                             *)
(***************************************************************************)
\* A resolver string of the configuration: the host and, when the string
\* contains ':', the port text that follows it ("" when there is none).
ConfiguredResolvers ==
    << [host |-> "8.8.8.8", port |-> ""],
       [host |-> "8.8.4.4", port |-> ""],
       [host |-> "1.1.1.1", port |-> "5353"] >>

\* utils::parse_resolver followed by SocketAddr::to_string: `host:port`,
\* port 53 when the string has no ':'.
parse_resolver(r) ==
    IF r.port = "" THEN r.host \o ":53" ELSE r.host \o ":" \o r.port

\* The fields of the ResolverPool that new() builds from options.resolvers
\* (a non-empty list: new() returns a Validation error on an empty one).
ResolverPoolNew(resolvers, concurrency) ==
    [ primary_resolver_addr |-> parse_resolver(resolvers[1]),
      backup_resolver_addrs |->
          [i \in 1..(Len(resolvers) - 1) |-> parse_resolver(resolvers[i + 1])],
      concurrency |-> concurrency ]

\* options.resolvers of the runs that are modelled: every non-empty prefix.
ResolverLists ==
    { SubSeq(ConfiguredResolvers, 1, n) : n \in 1..Len(ConfiguredResolvers) }

\* What awaiting timeout(self.timeout, resolver.lookup(..)) can give:
\*   "ok"      Ok(Ok(lookup))
\*   "nx"      Ok(Err(e)), e a NoRecordsFound error carrying NXDomain
\*   "err"     Ok(Err(e)), any other resolve error (transport, ServFail, ...)
\*   "timeout" Err(Elapsed)
Outcomes == {"ok", "nx", "err", "timeout"}

\* hickory_resolver::Name::parse on the domain argument. A domain is the
\* sequence of its label lengths; parsing fails on an empty label and on a
\* label longer than 63 bytes.
NameParseOk(d) == \A i \in 1..Len(d) : d[i] >= 1 /\ d[i] <= 63

\* the domains callers pass: "example.com" and "a..com" (an empty label)
QueryDomains == { <<7, 3>>, <<1, 0, 3>> }

NoResult == [kind |-> "none", resolver |-> "", error |-> "", producer |-> ""]
OkResult(id, who) == [kind |-> "ok", resolver |-> id, error |-> "", producer |-> who]
ErrResult(e) == [kind |-> "err", resolver |-> "", error |-> e, producer |-> ""]

\* the address of the i-th resolver of the configured list (1 = R0)
ResolverAddr(i) ==
    IF i = 1 THEN pool.primary_resolver_addr ELSE pool.backup_resolver_addrs[i - 1]

NumResolvers == 1 + Len(pool.backup_resolver_addrs)

\* Who answers a lookup on self.resolver: new() keeps the resolver of the
\* system configuration when that loads, else the one built for resolvers[0].
PrimaryProducer == IF system_conf THEN "system" ELSE pool.primary_resolver_addr

(***************************************************************************)
(* ResolverPool::query                                                     *)
(***************************************************************************)
\* a semaphore that hands out a permit it does not have
PermitAvailableAlways(sem) == TRUE

\* Semaphore::acquire completes only when a permit is available.
PermitAvailable(sem) == sem > 0

\* a permit that is forgotten instead of dropped
DropPermitLeak(sem) == sem

\* dropping `_permit` when query returns gives the permit back
DropPermit(sem) == sem + 1

\* query returns `r`: the scoped permit is dropped on the way out
QueryReturn(c, r) ==
    /\ qresult' = [qresult EXCEPT ![c] = r]
    /\ qpc' = [qpc EXCEPT ![c] = "done"]
    /\ semaphore' = DropPermit(semaphore)

\* a task calls pool.query(domain, record_type)
QueryCall(c) ==
    /\ qpc[c] \in {"idle", "done"}
    /\ \E d \in QueryDomains : qdomain' = [qdomain EXCEPT ![c] = d]
    /\ qpc' = [qpc EXCEPT ![c] = "acquire"]
    /\ qidx' = [qidx EXCEPT ![c] = 1]
    /\ qcontacted' = [qcontacted EXCEPT ![c] = <<>>]
    /\ qresult' = [qresult EXCEPT ![c] = NoResult]
    /\ UNCHANGED <<pool, system_conf, behaviour, semaphore>>
    /\ UNCHANGED notPoolVars

\* let _permit = self.semaphore.acquire().await
QueryAcquire(c) ==
    /\ qpc[c] = "acquire"
    /\ PermitAvailable(semaphore)
    /\ semaphore' = semaphore - 1
    /\ qpc' = [qpc EXCEPT ![c] = "parse"]
    /\ UNCHANGED <<pool, system_conf, behaviour, qdomain, qidx, qcontacted, qresult>>
    /\ UNCHANGED notPoolVars

\* Name::parse(domain, None).map_err(invalid_input)?
QueryParseName(c) ==
    /\ qpc[c] = "parse"
    /\ IF NameParseOk(qdomain[c])
       THEN /\ qpc' = [qpc EXCEPT ![c] = "primary"]
            /\ UNCHANGED <<semaphore, qresult>>
       ELSE QueryReturn(c, ErrResult("InvalidInput"))
    /\ UNCHANGED <<pool, system_conf, behaviour, qdomain, qidx, qcontacted>>
    /\ UNCHANGED notPoolVars

\* the match on the primary lookup's result
PrimaryMatch(c, outcome) ==
    CASE outcome = "ok" ->
            /\ QueryReturn(c, OkResult(pool.primary_resolver_addr, PrimaryProducer))
            /\ UNCHANGED qidx
      [] outcome \in {"nx", "err"} ->
            /\ qpc' = [qpc EXCEPT ![c] = "backup"]
            /\ qidx' = [qidx EXCEPT ![c] = 1]
            /\ UNCHANGED <<semaphore, qresult>>
      [] outcome = "timeout" ->
            /\ QueryReturn(c, ErrResult("Timeout"))
            /\ UNCHANGED qidx

\* timeout(self.timeout, self.resolver.lookup(..)).await and its match
QueryPrimary(c) ==
    /\ qpc[c] = "primary"
    /\ qcontacted' = [qcontacted EXCEPT ![c] = Append(@, PrimaryProducer)]
    /\ PrimaryMatch(c, behaviour[1])
    /\ UNCHANGED <<pool, system_conf, behaviour, qdomain>>
    /\ UNCHANGED notPoolVars

\* the match on one backup lookup's result inside the for loop
BackupMatch(c, outcome) ==
    IF outcome = "ok"
    THEN /\ QueryReturn(c, OkResult("backup-resolver",
                                     pool.backup_resolver_addrs[qidx[c]]))
         /\ UNCHANGED qidx
    ELSE /\ qidx' = [qidx EXCEPT ![c] = @ + 1]
         /\ UNCHANGED <<semaphore, qpc, qresult>>

\* one iteration of `for backup in &self.backup_resolvers`
QueryBackup(c) ==
    /\ qpc[c] = "backup"
    /\ qidx[c] <= Len(pool.backup_resolver_addrs)
    /\ qcontacted' = [qcontacted EXCEPT ![c] =
                          Append(@, pool.backup_resolver_addrs[qidx[c]])]
    /\ BackupMatch(c, behaviour[qidx[c] + 1])
    /\ UNCHANGED <<pool, system_conf, behaviour, qdomain>>
    /\ UNCHANGED notPoolVars

\* the loop is over: Err(DnsxError::resolve("All resolvers failed"))
QueryBackupsExhausted(c) ==
    /\ qpc[c] = "backup"
    /\ qidx[c] > Len(pool.backup_resolver_addrs)
    /\ QueryReturn(c, ErrResult("Resolve: All resolvers failed"))
    /\ UNCHANGED <<pool, system_conf, behaviour, qdomain, qidx, qcontacted>>
    /\ UNCHANGED notPoolVars

PoolInit ==
    /\ \E rs \in ResolverLists :
          /\ pool = ResolverPoolNew(rs, PoolConcurrency)
          /\ behaviour \in [1..Len(rs) -> Outcomes]
    /\ system_conf \in BOOLEAN
    /\ semaphore = PoolConcurrency
    /\ qpc = [c \in Callers |-> "idle"]
    /\ qdomain = [c \in Callers |-> <<7, 3>>]
    /\ qidx = [c \in Callers |-> 1]
    /\ qcontacted = [c \in Callers |-> <<>>]
    /\ qresult = [c \in Callers |-> NoResult]

\* no ResolverPool is in use
PoolUnused ==
    /\ pool = ResolverPoolNew(ConfiguredResolvers, PoolConcurrency)
    /\ behaviour = [i \in 1..Len(ConfiguredResolvers) |-> "ok"]
    /\ system_conf = FALSE
    /\ semaphore = PoolConcurrency
    /\ qpc = [c \in Callers |-> "idle"]
    /\ qdomain = [c \in Callers |-> <<7, 3>>]
    /\ qidx = [c \in Callers |-> 1]
    /\ qcontacted = [c \in Callers |-> <<>>]
    /\ qresult = [c \in Callers |-> NoResult]

PoolNext ==
    \E c \in Callers :
        \/ QueryCall(c)
        \/ QueryAcquire(c)
        \/ QueryParseName(c)
        \/ QueryPrimary(c)
        \/ QueryBackup(c)
        \/ QueryBackupsExhausted(c)

(***************************************************************************)
(* RateLimiter (concurrency.rs)                                            *)
(***************************************************************************)
\* RateLimiter::new: the interval in microseconds, by u64 division
RateLimiterInterval(requests_per_second) ==
    IF requests_per_second > 0 THEN 1000000 \div requests_per_second ELSE 0

\* a limiter that never finds a reason to sleep
MustSleepNever(interval, elapsed) == FALSE

\* `if elapsed < self.interval` in RateLimiter::wait
MustSleep(interval, elapsed) == elapsed < interval

\* `self.interval - elapsed`
SleepDuration(interval, elapsed) == interval - elapsed

\* Time is counted in microseconds. The limiter keeps the time elapsed since
\* last_request (`since`, which matters only up to the interval), the owner of
\* the std Mutex (`holder`, 0 when unlocked) and what is left of the sleep the
\* owner is in.
RateLimiterNew(requests_per_second) ==
    [ interval |-> RateLimiterInterval(requests_per_second),
      since |-> 0, holder |-> 0, remaining |-> 0 ]

\* one microsecond passes
LimiterTick(l) ==
    [l EXCEPT !.since = IF @ < l.interval THEN @ + 1 ELSE @,
              !.remaining = IF @ > 0 THEN @ - 1 ELSE 0]

\* time can still change the limiter
LimiterTicking(l) == l.since < l.interval \/ l.remaining > 0

(***************************************************************************)
(* ConcurrentProcessor::process_stream and process_batch                   *)
(***************************************************************************)
Items == 1..MaxItems

\* the rate limits of the modelled runs: none, 500000/s (2 us apart) and
\* 2000000/s (more than one per microsecond)
ProcRateLimits == {0, 500000, 2000000}

ProcConfigs ==
    [ max_concurrent : 1..MaxConcurrent,
      batch_size : 1..MaxBatchSize,
      rate_limit : ProcRateLimits ]

\* the records query_fn(item) resolves to when it succeeds: item i has
\* one record when i is even and two when it is odd
OpRecords(i) == [k \in 1..(1 + (i % 2)) |-> <<i, k>>]

\* what timeout(self.config.timeout, query_fn(item)).await can give
OpOutcomes == {"ok", "err", "timeout"}

\* an item's future that resolves failed queries to their records too
ItemResultKeepsFailed(i, outcome) ==
    IF outcome \in {"ok", "err"} THEN OpRecords(i) ELSE <<>>

\* the match on the result inside the item's future: the records of an Ok
\* query, an empty Vec for a failed or timed-out one (always Ok(..))
ItemResult(i, outcome) ==
    IF outcome = "ok" THEN OpRecords(i) ELSE <<>>

\* a future that gives its permit up before the query runs
PermitsWhileOpDropped(held, i) == held \ {i}

\* `_permit` lives to the end of the async block: it is still owned while
\* query_fn runs
PermitsWhileOp(held, i) == held

\* a chunking that puts all the items into one chunk
ChunkEndOfInput(first) == pitems

\* last item of the chunk that starts at `first`
ChunkEnd(first) ==
    IF first + pcfg.batch_size - 1 < pitems
    THEN first + pcfg.batch_size - 1 ELSE pitems

\* the futures buffer_unordered holds
InProgress == { i \in Items : ipc[i] \in {"created", "lock", "sleep", "op"} }

\* a rate limiter is attached (config.rate_limit > 0)
LimiterAttached == pcfg.rate_limit > 0

RECURSIVE Flatten(_)
\* `all_records.extend(records)` over the results, in order
Flatten(results) ==
    IF results = <<>> THEN <<>>
    ELSE Head(results) \o Flatten(Tail(results))

\* process_stream is called: the rate limiter is created; an empty input
\* has no chunk and returns at once
ProcessStreamStart ==
    /\ ppc = "start"
    /\ limiter' = RateLimiterNew(pcfg.rate_limit)
    /\ IF pitems = 0
       THEN ppc' = "done" /\ presult' = "Ok"
       ELSE ppc' = "batch" /\ presult' = presult
    /\ UNCHANGED <<pcfg, pitems, chunk_start, next_item, ipc, psem, permit_held,
                   gate_passed, op_calls, op_outcome, batch_results, all_records>>
    /\ UNCHANGED notProcVars

\* BufferUnordered::poll_next first fills its queue: while it holds fewer
\* than max_concurrent futures and the chunk has items left, it pulls one
CanPull ==
    /\ next_item <= ChunkEnd(chunk_start)
    /\ Cardinality(InProgress) < pcfg.max_concurrent

\* futures that were pulled and not polled yet: they are polled before the
\* task returns to the runtime, so before any timer of a sleeping one fires
Unpolled == { i \in Items : ipc[i] = "created" }

\* buffer_unordered(max_concurrent) pulls the next future of the chunk
ItemPull(i) ==
    /\ ppc = "batch"
    /\ i = next_item
    /\ CanPull
    /\ ipc' = [ipc EXCEPT ![i] = "created"]
    /\ next_item' = next_item + 1
    /\ UNCHANGED <<pcfg, pitems, ppc, chunk_start, psem, permit_held, gate_passed,
                   limiter, op_calls, op_outcome, batch_results, all_records,
                   presult>>
    /\ UNCHANGED notProcVars

\* query_fn(item) is invoked under the timeout
StartOp(i, held) ==
    /\ ipc' = [ipc EXCEPT ![i] = "op"]
    /\ op_calls' = [op_calls EXCEPT ![i] = @ + 1]
    /\ permit_held' = PermitsWhileOp(held, i)
    /\ psem' = pcfg.max_concurrent - Cardinality(permit_held')

\* The first poll of an item's future: it takes a permit and, with a limiter
\* attached, enters RateLimiter::wait. There it locks the std Mutex; when the
\* lock is owned by a future of this same task that sleeps inside wait, the
\* thread re-locks a mutex it holds, which never returns (it blocks for ever
\* or panics). Otherwise it sleeps with the lock held, or sets last_request
\* and goes on to the query.
ItemFirstPoll(i) ==
    /\ ppc = "batch"
    /\ ipc[i] = "created"
    /\ ~CanPull
    /\ PermitAvailable(psem)
    /\ LET held == permit_held \cup {i} IN
       CASE ~LimiterAttached ->
              /\ StartOp(i, held)
              /\ UNCHANGED <<ppc, limiter, gate_passed>>
         [] LimiterAttached /\ limiter.interval = 0 ->
              /\ gate_passed' = gate_passed \cup {i}
              /\ StartOp(i, held)
              /\ UNCHANGED <<ppc, limiter>>
         [] LimiterAttached /\ limiter.interval > 0 /\ limiter.holder # 0 ->
              /\ ppc' \in {"blocked", "panicked"}
              /\ ipc' = [ipc EXCEPT ![i] = "lock"]
              /\ permit_held' = held
              /\ psem' = psem - 1
              /\ UNCHANGED <<limiter, op_calls, gate_passed>>
         [] LimiterAttached /\ limiter.interval > 0 /\ limiter.holder = 0
              /\ MustSleep(limiter.interval, limiter.since) ->
              /\ limiter' = [limiter EXCEPT
                    !.holder = i,
                    !.remaining = SleepDuration(limiter.interval, limiter.since)]
              /\ ipc' = [ipc EXCEPT ![i] = "sleep"]
              /\ permit_held' = held
              /\ psem' = psem - 1
              /\ UNCHANGED <<ppc, op_calls, gate_passed>>
         [] OTHER ->
              /\ limiter' = [limiter EXCEPT !.since = 0]
              /\ gate_passed' = gate_passed \cup {i}
              /\ StartOp(i, held)
              /\ UNCHANGED ppc
    /\ UNCHANGED <<pcfg, pitems, chunk_start, next_item, op_outcome,
                   batch_results, all_records, presult>>
    /\ UNCHANGED notProcVars

\* the sleep inside wait is over: last_request = now, the lock is released,
\* wait returns and the query starts
ItemWake(i) ==
    /\ ppc = "batch"
    /\ ipc[i] = "sleep"
    /\ ~CanPull
    /\ Unpolled = {}
    /\ limiter.holder = i
    /\ limiter.remaining = 0
    /\ limiter' = [limiter EXCEPT !.since = 0, !.holder = 0]
    /\ gate_passed' = gate_passed \cup {i}
    /\ StartOp(i, permit_held)
    /\ UNCHANGED <<pcfg, pitems, ppc, chunk_start, next_item, op_outcome,
                   batch_results, all_records, presult>>
    /\ UNCHANGED notProcVars

\* the query returns Ok or Err, or the timeout fires: the future resolves to
\* Ok(records) or Ok(empty), its permit is dropped, and buffer_unordered
\* yields the result
ItemOpDone(i) ==
    /\ ppc = "batch"
    /\ ipc[i] = "op"
    /\ ~CanPull
    /\ \E outcome \in OpOutcomes :
          /\ op_outcome' = [op_outcome EXCEPT ![i] = outcome]
          /\ batch_results' = Append(batch_results, ItemResult(i, outcome))
    /\ ipc' = [ipc EXCEPT ![i] = "finished"]
    /\ permit_held' = permit_held \ {i}
    /\ psem' = pcfg.max_concurrent - Cardinality(permit_held')
    /\ UNCHANGED <<pcfg, pitems, ppc, chunk_start, next_item, gate_passed,
                   limiter, op_calls, all_records, presult>>
    /\ UNCHANGED notProcVars

\* the stream of the chunk is exhausted and every future has resolved:
\* process_batch returns, process_stream extends all_records and takes the
\* next chunk, or returns Ok((all_records, metrics)) after the last one
BatchDone ==
    /\ ppc = "batch"
    /\ next_item > ChunkEnd(chunk_start)
    /\ InProgress = {}
    /\ all_records' = all_records \o Flatten(batch_results)
    /\ batch_results' = <<>>
    /\ IF ChunkEnd(chunk_start) = pitems
       THEN ppc' = "done" /\ presult' = "Ok" /\ UNCHANGED chunk_start
       ELSE /\ chunk_start' = ChunkEnd(chunk_start) + 1
            /\ UNCHANGED <<ppc, presult>>
    /\ UNCHANGED <<pcfg, pitems, next_item, ipc, psem, permit_held, gate_passed,
                   limiter, op_calls, op_outcome>>
    /\ UNCHANGED notProcVars

\* one microsecond passes
ProcTick ==
    /\ ppc = "batch"
    /\ LimiterTicking(limiter)
    /\ limiter' = LimiterTick(limiter)
    /\ UNCHANGED <<pcfg, pitems, ppc, chunk_start, next_item, ipc, psem,
                   permit_held, gate_passed, op_calls, op_outcome, batch_results,
                   all_records, presult>>
    /\ UNCHANGED notProcVars

\* a processor built by ConcurrentProcessor::new(config, query_fn) and the
\* input of one process_stream call
ProcInit ==
    /\ pcfg \in ProcConfigs
    /\ pitems \in 0..MaxItems
    /\ ppc = "start"
    /\ chunk_start = 1
    /\ next_item = 1
    /\ ipc = [i \in Items |-> "pending"]
    /\ psem = pcfg.max_concurrent
    /\ permit_held = {}
    /\ gate_passed = {}
    /\ limiter = RateLimiterNew(0)
    /\ op_calls = [i \in Items |-> 0]
    /\ op_outcome = [i \in Items |-> "none"]
    /\ batch_results = <<>>
    /\ all_records = <<>>
    /\ presult = "none"

\* no processor is in use
ProcUnused ==
    /\ pcfg = [max_concurrent |-> 1, batch_size |-> 1, rate_limit |-> 0]
    /\ pitems = 0
    /\ ppc = "start"
    /\ chunk_start = 1
    /\ next_item = 1
    /\ ipc = [i \in Items |-> "pending"]
    /\ psem = 1
    /\ permit_held = {}
    /\ gate_passed = {}
    /\ limiter = RateLimiterNew(0)
    /\ op_calls = [i \in Items |-> 0]
    /\ op_outcome = [i \in Items |-> "none"]
    /\ batch_results = <<>>
    /\ all_records = <<>>
    /\ presult = "none"

ProcNext ==
    \/ ProcessStreamStart
    \/ \E i \in Items :
          \/ ItemPull(i)
          \/ ItemFirstPoll(i)
          \/ ItemWake(i)
          \/ ItemOpDone(i)
    \/ BatchDone
    \/ ProcTick

(***************************************************************************)
(* RateLimiter::wait called from several threads                           *)
(***************************************************************************)
Waiters == 1..NumWaiters

\* the rates of the modelled limiters, with intervals of 4, 3, 2 and 0 us
RlRates == {250000, 300000, 500000, 2000000}

\* rl_span and rl_since_return stop counting where no property looks further
SpanCap == 4 * MaxWaits

\* wait() returns: the return is counted and timed
WaitReturns ==
    /\ rl_returns' = rl_returns + 1
    /\ rl_gap' = rl_since_return
    /\ rl_since_return' = 0
    /\ rl_span' = IF rl_returns = 0 THEN 0 ELSE rl_span

\* a thread calls limiter.wait(); a limiter whose interval is zero returns
\* at once without touching last_request
WaitCall(t) ==
    /\ rl_pc[t] = "idle"
    /\ rl_returns + Cardinality({u \in Waiters : rl_pc[u] # "idle"}) < MaxWaits
    /\ IF rl.interval = 0
       THEN WaitReturns /\ UNCHANGED rl_pc
       ELSE /\ rl_pc' = [rl_pc EXCEPT ![t] = "lock"]
            /\ UNCHANGED <<rl_returns, rl_gap, rl_since_return, rl_span>>
    /\ UNCHANGED <<rl_rate, rl>>
    /\ UNCHANGED notRlVars

\* self.last_request.lock(): the thread owns the mutex, reads the clock and
\* either goes to sleep with the lock held or sets last_request and returns
WaitLock(t) ==
    /\ rl_pc[t] = "lock"
    /\ rl.holder = 0
    /\ IF MustSleep(rl.interval, rl.since)
       THEN /\ rl' = [rl EXCEPT !.holder = t,
                                !.remaining = SleepDuration(rl.interval, rl.since)]
            /\ rl_pc' = [rl_pc EXCEPT ![t] = "sleep"]
            /\ UNCHANGED <<rl_returns, rl_gap, rl_since_return, rl_span>>
       ELSE /\ rl' = [rl EXCEPT !.since = 0]
            /\ rl_pc' = [rl_pc EXCEPT ![t] = "idle"]
            /\ WaitReturns
    /\ UNCHANGED rl_rate
    /\ UNCHANGED notRlVars

\* the sleep is over: last_request = now, the guard is dropped, wait returns
WaitWake(t) ==
    /\ rl_pc[t] = "sleep"
    /\ rl.holder = t
    /\ rl.remaining = 0
    /\ rl' = [rl EXCEPT !.since = 0, !.holder = 0]
    /\ rl_pc' = [rl_pc EXCEPT ![t] = "idle"]
    /\ WaitReturns
    /\ UNCHANGED rl_rate
    /\ UNCHANGED notRlVars

\* one microsecond passes
WaitTick ==
    /\ \/ LimiterTicking(rl)
       \/ rl_returns >= 1 /\ rl_span < SpanCap
       \/ rl_returns >= 1 /\ rl_since_return < SpanCap
    /\ rl' = LimiterTick(rl)
    /\ rl_since_return' =
          IF rl_returns >= 1 /\ rl_since_return < SpanCap
          THEN rl_since_return + 1 ELSE rl_since_return
    /\ rl_span' =
          IF rl_returns >= 1 /\ rl_span < SpanCap THEN rl_span + 1 ELSE rl_span
    /\ UNCHANGED <<rl_rate, rl_pc, rl_returns, rl_gap>>
    /\ UNCHANGED notRlVars

\* RateLimiter::new(requests_per_second), last_request = Instant::now()
RlInit ==
    /\ rl_rate \in RlRates
    /\ rl = RateLimiterNew(rl_rate)
    /\ rl_pc = [t \in Waiters |-> "idle"]
    /\ rl_returns = 0
    /\ rl_since_return = 0
    /\ rl_gap = 0
    /\ rl_span = 0

\* no stand-alone limiter is in use
RlUnused ==
    /\ rl_rate = 0
    /\ rl = RateLimiterNew(0)
    /\ rl_pc = [t \in Waiters |-> "idle"]
    /\ rl_returns = 0
    /\ rl_since_return = 0
    /\ rl_gap = 0
    /\ rl_span = 0

RlNext ==
    \/ \E t \in Waiters :
          \/ WaitCall(t)
          \/ WaitLock(t)
          \/ WaitWake(t)
    \/ WaitTick

(***************************************************************************)
(* AdaptiveBatchSizer (concurrency.rs)                                     *)
(***************************************************************************)
\* target_qps: 1000.0
target_qps == 1000

\* `current_qps > self.target_qps * 1.1`, on whole numbers of queries per
\* second
AboveTarget(qps) == qps * 10 > target_qps * 11

\* `current_qps < self.target_qps * 0.9`
BelowTarget(qps) == qps * 10 < target_qps * 9

\* (current_size as f64 * adjustment_factor) as usize, adjustment_factor = 1.2:
\* the cast truncates toward zero
GrownSize(current) == (current * 12) \div 10

\* (current_size as f64 / adjustment_factor) as usize
ShrunkSize(current) == (current * 10) \div 12

Min(a, b) == IF a <= b THEN a ELSE b
Max(a, b) == IF a >= b THEN a ELSE b

AdjustedSizeUnclamped(s, qps) ==
    IF AboveTarget(qps) THEN GrownSize(s.current_size)
    ELSE IF BelowTarget(qps) THEN ShrunkSize(s.current_size)
    ELSE s.current_size

\* the value adjust(current_qps) leaves in current_size
AdjustedSize(s, qps) ==
    IF AboveTarget(qps) THEN Min(GrownSize(s.current_size), s.max_size)
    ELSE IF BelowTarget(qps) THEN Max(ShrunkSize(s.current_size), s.min_size)
    ELSE s.current_size

\* AdaptiveBatchSizer::new(initial_size, min_size, max_size)
AdaptiveBatchSizerNew(initial_size, min_size, max_size) ==
    [current_size |-> initial_size, min_size |-> min_size,
     max_size |-> max_size]

\* the sizers of the model: 1 <= min_size <= initial_size <= max_size (a
\* batch holds at least one item)
SizerConfigs ==
    { AdaptiveBatchSizerNew(i, lo, hi) :
        <<i, lo, hi>> \in { t \in (1..MaxSizerSize) \X (1..MaxSizerSize)
                                   \X (1..MaxSizerSize) :
                              t[2] <= t[1] /\ t[1] <= t[3] } }

\* the queries per second a batch can report: far below, just below, at the
\* edges of, inside, just above and far above the band around target_qps
QpsValues == {0, 899, 900, 1000, 1100, 1101, 2000}

\* AdaptiveBatchSizer::adjust(current_qps)
Adjust(qps) ==
    /\ sz_calls < MaxAdjusts
    /\ sizer' = [sizer EXCEPT !.current_size = AdjustedSize(sizer, qps)]
    /\ sz_calls' = sz_calls + 1
    /\ sz_qps' = qps
    /\ sz_prev' = sizer.current_size
    /\ UNCHANGED notSizerVars

SizerInit ==
    /\ sizer \in SizerConfigs
    /\ sz_calls = 0
    /\ sz_qps = 0
    /\ sz_prev = sizer.current_size

\* no batch sizer is in use
SizerUnused ==
    /\ sizer = AdaptiveBatchSizerNew(0, 0, 0)
    /\ sz_calls = 0
    /\ sz_qps = 0
    /\ sz_prev = 0

SizerNext == \E qps \in QpsValues : Adjust(qps)

(***************************************************************************)
(* DnsCache (cache.rs)                                                     *)
(***************************************************************************)
\* domain names as the callers write them, one character per element:
\* "ex" and "Ex."
DomainNames == { <<"e", "x">>, <<"E", "x", ".">> }

RecordTypes == {"A", "AAAA"}

\* CacheKey::new(domain, record_type): the fields are stored as given
CacheKeyNew(domain, record_type) ==
    [domain |-> domain, record_type |-> record_type]

\* the keys the threads and tasks of the model use
CacheKeys ==
    { CacheKeyNew(d, "A") : d \in DomainNames }
        \cup { CacheKeyNew(<<"e", "x">>, "AAAA") }

\* Option<T>
NoneOpt == <<>>
Some(x) == <<x>>
UnwrapOr(opt, default) == IF opt = NoneOpt THEN default ELSE opt[1]

\* a DnsRecord: the fields of it the cache and its clients look at
DnsRecord(value, ttl, timestamp) ==
    [value |-> value, ttl |-> ttl, timestamp |-> timestamp]

\* record vectors: two answers with records, the synthetic answer of a
\* query that found no records, and the empty vector
RecordsA == << DnsRecord("192.0.2.1", 100, 1) >>
RecordsB == << DnsRecord("192.0.2.2", 300, 2), DnsRecord("192.0.2.3", 200, 2) >>
RecordsNone == << DnsRecord("No records found", 0, 3) >>
RecordsEmpty == << >>

\* CachedResponse::new(records, ttl): cached_at = Instant::now(), kept as the
\* time elapsed since then
CachedResponseNew(records, ttl) ==
    [records |-> records, age |-> 0, ttl |-> ttl]

\* CachedResponse::is_valid
IsValid(cached) == cached.age < cached.ttl

\* cached_at.elapsed() after one more step of the clock; an elapsed time
\* beyond ttl is kept as ttl, which is_valid and remaining_ttl cannot tell
\* from the exact value
Elapse(cached) ==
    [cached EXCEPT !.age = Min(cached.age + TickSeconds, cached.ttl)]

\* DnsCache::new(max_size, default_ttl)
DnsCacheNew(max_size, default_ttl) ==
    [max_size |-> max_size, default_ttl |-> default_ttl]

\* the --cache-ttl default of the command line
default_cache_ttl == 300

EmptyMap == [k \in {} |-> CachedResponseNew(RecordsEmpty, 0)]

MapLen(map) == Cardinality(DOMAIN map)

Restrict(map, keys) == [k \in keys |-> map[k]]

\* an insert that renews every entry of the map
MapInsertRenewingAll(map, key, cached) ==
    [k \in (DOMAIN map) \cup {key} |->
        IF k = key THEN cached ELSE [map[k] EXCEPT !.age = 0]]

\* HashMap::insert
MapInsert(map, key, cached) ==
    [k \in (DOMAIN map) \cup {key} |-> IF k = key THEN cached ELSE map[k]]

CacheLookupAlwaysMiss(map, key) == NoneOpt

\* DnsCache::get
CacheLookup(map, key) ==
    IF key \in DOMAIN map /\ IsValid(map[key])
    THEN Some(map[key].records)
    ELSE NoneOpt

CacheAfterGetPurging(map, key) ==
    IF key \in DOMAIN map /\ ~IsValid(map[key])
    THEN Restrict(map, (DOMAIN map) \ {key})
    ELSE map

\* the map after DnsCache::get, which only takes the read lock
CacheAfterGet(map, key) == map

\* DnsCache::cleanup_expired
CleanupExpired(map) ==
    Restrict(map, { k \in DOMAIN map : IsValid(map[k]) })

\* DnsCache::evict_oldest: the first to_remove keys in the iteration order
\* of the HashMap, which can be any to_remove of its keys
EvictOldest(map) ==
    LET to_remove == Max(MapLen(map) \div 10, 1)
        taken == Min(to_remove, MapLen(map))
    IN { Restrict(map, (DOMAIN map) \ gone) :
           gone \in { g \in SUBSET (DOMAIN map) : Cardinality(g) = taken } }

\* whether put goes on to evict_oldest
StillAtCapacity(map, max_size) ==
    /\ MapLen(map) >= max_size
    /\ MapLen(CleanupExpired(map)) >= max_size

PutMapsInsertFirst(map, max_size, key, cached) ==
    LET inserted == MapInsert(map, key, cached)
    IN IF MapLen(inserted) > max_size /\ MapLen(inserted) > 0
       THEN EvictOldest(inserted) ELSE {inserted}

\* the maps DnsCache::put can leave behind, under the write lock
PutMaps(map, max_size, key, cached) ==
    LET purged == IF MapLen(map) >= max_size THEN CleanupExpired(map) ELSE map
        room == IF MapLen(purged) >= max_size THEN EvictOldest(purged)
                ELSE {purged}
    IN { MapInsert(m, key, cached) : m \in room }

\* what the threads of the model pass to put as records and as ttl
PutArgs == { <<RecordsB, NoneOpt>>, <<RecordsA, Some(100)>>,
             <<RecordsEmpty, NoneOpt>> }

\* the history of one key: never put, or the arguments and the
\* CachedResponse of its latest put while that is within its ttl ("live"),
\* or that put with its ttl elapsed ("expired"), or that put followed by a
\* clear() or by a put that went on to evict_oldest ("gone")
NoHistory(state) ==
    [state |-> state, ttl_arg |-> NoneOpt, records |-> RecordsEmpty,
     age |-> 0, ttl |-> 0]
NeverPut == NoHistory("never")
GonePut == NoHistory("gone")
ExpiredPut == NoHistory("expired")
LivePut(ttl_arg, cached) ==
    IF cached.age < cached.ttl
    THEN [state |-> "live", ttl_arg |-> ttl_arg, records |-> cached.records,
          age |-> cached.age, ttl |-> cached.ttl]
    ELSE ExpiredPut

\* the history after one more step of the clock
ElapsePut(h) ==
    IF h.state = "live"
    THEN LivePut(h.ttl_arg, Elapse([records |-> h.records, age |-> h.age,
                                    ttl |-> h.ttl]))
    ELSE h

Undo(h) == IF h.state \in {"live", "expired"} THEN GonePut ELSE h

NoKey == CacheKeyNew(<<>>, "A")

NoGet == [key |-> NoKey, result |-> NoneOpt]

NoCall == [key |-> NoKey, inner |-> FALSE, result |-> "none",
           records |-> RecordsEmpty]

NoCalls == [k \in CacheKeys |-> 0]

RECURSIVE SumOver(_, _)
SumOver(f, keys) ==
    IF keys = {} THEN 0
    ELSE LET k == CHOOSE x \in keys : TRUE
         IN f[k] + SumOver(f, keys \ {k})

\* threads that are not inside put, tasks that are not inside query
Idle == NumCacheThreads - writers - SumOver(inflight, CacheKeys)

\* DnsCache::put(key, records, ttl) once it holds the write lock: lines
\* 110-111 build the CachedResponse, lines 113-126 insert it
WriteLocked(key, records, ttl) ==
    LET cached == CachedResponseNew(records, UnwrapOr(ttl, ccfg.default_ttl))
        evicts == StillAtCapacity(cache, ccfg.max_size)
    IN /\ \E m \in PutMaps(cache, ccfg.max_size, key, cached) : cache' = m
       /\ last_put' =
             [k \in CacheKeys |->
                 IF k = key THEN LivePut(ttl, cached)
                 ELSE IF evicts THEN Undo(last_put[k])
                 ELSE last_put[k]]
       /\ evicted_for' = IF evicts THEN key ELSE NoKey
       /\ w_quiet' = (w_quiet /\ ~evicts /\ cached.ttl > 0)

\* DnsCache::get(key)
CacheGet(key) ==
    /\ Idle > 0
    /\ last_get' = [key |-> key, result |-> CacheLookup(cache, key)]
    /\ cache' = CacheAfterGet(cache, key)
    /\ UNCHANGED <<ccfg, writers, inflight, last_put, evicted_for, wcall,
                   inner_calls, w_quiet>>
    /\ UNCHANGED notCacheVars

\* DnsCache::put is called: one more thread is about to take the write lock
CachePutCall ==
    /\ Idle > 0
    /\ writers' = writers + 1
    /\ last_get' = NoGet
    /\ UNCHANGED <<ccfg, cache, inflight, last_put, evicted_for, wcall,
                   inner_calls, w_quiet>>
    /\ UNCHANGED notCacheVars

\* DnsCache::put(key, records, ttl) takes the write lock, inserts and returns
CachePutWrite(key, records, ttl) ==
    /\ writers > 0
    /\ WriteLocked(key, records, ttl)
    /\ writers' = writers - 1
    /\ last_get' = NoGet
    /\ UNCHANGED <<ccfg, inflight, wcall, inner_calls>>
    /\ UNCHANGED notCacheVars

\* DnsCache::clear, CachedDnsClient::clear_cache
CacheClear ==
    /\ Idle > 0
    /\ cache # EmptyMap
    /\ cache' = EmptyMap
    /\ last_put' = [k \in CacheKeys |-> Undo(last_put[k])]
    /\ evicted_for' = NoKey
    /\ last_get' = NoGet
    /\ wcall' = NoCall
    /\ inner_calls' = NoCalls
    /\ w_quiet' = FALSE
    /\ UNCHANGED <<ccfg, writers, inflight>>
    /\ UNCHANGED notCacheVars

\* TickSeconds pass: every Instant::elapsed() grows. The clock is coarse: a
\* thread that has built its CachedResponse inserts it before the next step
\* of the clock.
CacheTick ==
    /\ writers = 0
    /\ cache' = [k \in DOMAIN cache |-> Elapse(cache[k])]
    /\ last_put' = [k \in CacheKeys |-> ElapsePut(last_put[k])]
    /\ <<cache', last_put'>> # <<cache, last_put>>
    /\ last_get' = NoGet
    /\ UNCHANGED evicted_for
    /\ wcall' = NoCall
    /\ inner_calls' = NoCalls
    /\ w_quiet' = FALSE
    /\ UNCHANGED <<ccfg, writers, inflight>>
    /\ UNCHANGED notCacheVars

CacheConfigs ==
    { DnsCacheNew(n, default_cache_ttl) : n \in 0..MaxCacheSize }

CacheInit ==
    /\ ccfg \in CacheConfigs
    /\ cache = EmptyMap
    /\ writers = 0
    /\ inflight = NoCalls
    /\ last_put = [k \in CacheKeys |-> NeverPut]
    /\ evicted_for = NoKey
    /\ last_get = NoGet
    /\ wcall = NoCall
    /\ inner_calls = NoCalls
    /\ w_quiet = TRUE

\* no cache is in use
CacheUnused ==
    /\ ccfg = DnsCacheNew(0, 0)
    /\ cache = EmptyMap
    /\ writers = 0
    /\ inflight = NoCalls
    /\ last_put = [k \in CacheKeys |-> NeverPut]
    /\ evicted_for = NoKey
    /\ last_get = NoGet
    /\ wcall = NoCall
    /\ inner_calls = NoCalls
    /\ w_quiet = TRUE

CacheNext ==
    \/ \E key \in CacheKeys : CacheGet(key)
    \/ CachePutCall
    \/ \E key \in CacheKeys, args \in PutArgs :
          CachePutWrite(key, args[1], args[2])
    \/ CacheClear
    \/ CacheTick

(***************************************************************************)
(* CachedDnsClient (cache.rs)                                              *)
(***************************************************************************)
\* what the inner DnsQuery answers with Ok
InnerAnswers == {RecordsB, RecordsNone, RecordsEmpty}

MinOf(numbers) == CHOOSE n \in numbers : \A m \in numbers : n <= m

\* records.iter().map(|r| r.ttl).min().unwrap_or(300 seconds)
MinTtl(records) ==
    IF records = << >> THEN 300
    ELSE MinOf({ records[i].ttl : i \in 1..Len(records) })

CacheAfterInnerErrNegative(map, key) ==
    MapInsert(map, key, CachedResponseNew(RecordsEmpty, 300))

\* the map after `self.client.query(..).await?` returned early with the
\* error of the inner query
CacheAfterInnerErr(map, key) == map

\* CachedDnsClient::query(domain, record_type), lines 221-229: the key is
\* built, the cache is asked, a hit returns and a miss calls the inner query
CachedQuery(domain, record_type) ==
    LET key == CacheKeyNew(domain, record_type)
        cached == CacheLookup(cache, key)
    IN /\ Idle > 0
       /\ cache' = CacheAfterGet(cache, key)
       /\ IF cached # NoneOpt
          THEN /\ wcall' = [key |-> key, inner |-> FALSE, result |-> "hit",
                            records |-> cached[1]]
               /\ UNCHANGED <<inflight, inner_calls>>
          ELSE /\ wcall' = [key |-> key, inner |-> TRUE, result |-> "miss",
                            records |-> RecordsEmpty]
               /\ inflight' = [inflight EXCEPT ![key] = @ + 1]
               /\ inner_calls' =
                     IF w_quiet THEN [inner_calls EXCEPT ![key] = @ + 1]
                     ELSE inner_calls
       /\ UNCHANGED <<ccfg, writers, last_put, evicted_for, last_get, w_quiet>>
       /\ UNCHANGED notCacheVars

\* the inner query answers Ok(records): lines 229-239, the records are put
\* with their minimum ttl and returned
CachedInnerOk(key, records) ==
    /\ inflight[key] > 0
    /\ WriteLocked(key, records, Some(MinTtl(records)))
    /\ inflight' = [inflight EXCEPT ![key] = @ - 1]
    /\ wcall' = NoCall
    /\ inner_calls' = IF w_quiet' THEN inner_calls ELSE NoCalls
    /\ UNCHANGED <<ccfg, writers, last_get>>
    /\ UNCHANGED notCacheVars

\* the inner query answers Err: line 229 returns it
CachedInnerErr(key) ==
    /\ inflight[key] > 0
    /\ cache' = CacheAfterInnerErr(cache, key)
    /\ inflight' = [inflight EXCEPT ![key] = @ - 1]
    /\ wcall' = [NoCall EXCEPT !.result = "err"]
    /\ inner_calls' = NoCalls
    /\ w_quiet' = FALSE
    /\ UNCHANGED <<ccfg, writers, last_put, evicted_for, last_get>>
    /\ UNCHANGED notCacheVars

CachedNext ==
    \/ \E key \in CacheKeys : CachedQuery(key.domain, key.record_type)
    \/ \E key \in CacheKeys, records \in InnerAnswers : CachedInnerOk(key, records)
    \/ \E key \in CacheKeys : CachedInnerErr(key)
    \/ CacheClear
    \/ CacheTick

(***************************************************************************)
(* WildcardFilter (wildcard.rs): analyze_wildcard                          *)
(***************************************************************************)
\* the address every undefined label of the wildcard zone resolves to, and
\* an address of explicitly defined hosts
WildcardIp == "192.0.2.1"
RealIp == "192.0.2.9"
ProbeIps == {WildcardIp, RealIp}

\* domains are the sequences of their labels: split('.') and join(".") of
\* is_wildcard work on these
WildZone == <<"wild", "example">>
OtherZone == <<"other", "example">>
AnalysisZones == {WildZone, OtherZone}

\* `for _ in 0..5` of analyze_wildcard
probe_count == 5

\* the A addresses in the reply to one probe; none when the query was an Err
\* or the reply holds no A rdata
ProbeAnswers == {<<>>, <<WildcardIp>>, <<RealIp>>}
ProbeOutcomes == [1..probe_count -> ProbeAnswers]

RECURSIVE TestResults(_, _)
\* test_results after the probes 1..n: every A address of every Ok reply,
\* in the order of the probes
TestResults(probes, n) ==
    IF n = 0 THEN <<>> ELSE TestResults(probes, n - 1) \o probes[n]

SeqRange(seq) == { seq[i] : i \in 1..Len(seq) }

\* the WildcardAnalysis analyze_wildcard starts from; confidence_score is
\* held in tenths
EmptyAnalysis(domain) ==
    [ domain |-> domain, has_wildcard |-> FALSE, wildcard_ips |-> <<>>,
      confidence_score |-> 0 ]

\* as AnalyzedResults, but without the `test_results.len() >= 3` condition
AnalyzedResultsAnyCount(domain, test_results) ==
    IF test_results # <<>> /\ \A i \in 1..Len(test_results) :
                                  test_results[i] = test_results[1]
    THEN [ EmptyAnalysis(domain) EXCEPT !.has_wildcard = TRUE,
                                        !.wildcard_ips = <<test_results[1]>>,
                                        !.confidence_score = 9 ]
    ELSE EmptyAnalysis(domain)

\* "Analyze results for wildcard patterns": the analysis analyze_wildcard
\* derives from test_results. wildcard_records and bypass_attempts are
\* diagnostics that nothing reads back and are left out.
AnalyzedResults(domain, test_results) ==
    IF test_results # <<>>
    THEN LET first_ip == test_results[1]
             all_same == \A i \in 1..Len(test_results) :
                             test_results[i] = first_ip
             unique_ips == SeqRange(test_results)
         IN  IF all_same /\ Len(test_results) >= 3
             THEN [ EmptyAnalysis(domain) EXCEPT
                        !.has_wildcard = TRUE,
                        !.wildcard_ips = <<first_ip>>,
                        !.confidence_score = 9 ]
             ELSE IF Cardinality(unique_ips) = 1
                  THEN [ EmptyAnalysis(domain) EXCEPT
                             !.has_wildcard = TRUE,
                             !.wildcard_ips = <<CHOOSE ip \in unique_ips : TRUE>>,
                             !.confidence_score = 7 ]
                  ELSE EmptyAnalysis(domain)
    ELSE EmptyAnalysis(domain)

\* per address, the number of probes whose reply held it
ProbeHits(probes) ==
    [ ip \in ProbeIps |->
        Cardinality({ i \in 1..probe_count : ip \in SeqRange(probes[i]) }) ]

NoAnalyses == [ z \in AnalysisZones |-> NoneOpt ]
NoRounds == [ z \in AnalysisZones |-> 0 ]

\* analyze_wildcard(domain) up to its first await: a cached analysis is
\* returned; otherwise the call goes on to issue its probes
AnalyzeWildcard(domain) ==
    /\ IF analysis_cache[domain] # NoneOpt
       THEN /\ a_ret' = Some([ domain |-> domain, hits |-> NoneOpt,
                               analysis |-> analysis_cache[domain][1] ])
            /\ first_ret' = [first_ret EXCEPT
                   ![domain] = IF @ = NoneOpt THEN analysis_cache[domain] ELSE @]
            /\ UNCHANGED <<analyzing, probe_rounds>>
       ELSE /\ SumOver(analyzing, AnalysisZones) < NumAnalyzers
            /\ analyzing' = [analyzing EXCEPT ![domain] = @ + 1]
            /\ probe_rounds' = [probe_rounds EXCEPT ![domain] = @ + 1]
            /\ a_ret' = NoneOpt
            /\ UNCHANGED first_ret
    /\ UNCHANGED <<wf, patterns, analysis_cache, f_in, f_out,
                   scan_input, scan_pos, scan_output>>
    /\ UNCHANGED notWildVars

\* the rest of analyze_wildcard(domain): the five probes have been answered,
\* the results are analysed, the analysis is inserted into the cache and
\* returned
AnalyzeProbed(domain, probes) ==
    /\ analyzing[domain] > 0
    /\ LET analysis == AnalyzedResults(domain, TestResults(probes, probe_count))
       IN  /\ analysis_cache' = [analysis_cache EXCEPT ![domain] = Some(analysis)]
           /\ a_ret' = Some([ domain |-> domain,
                              hits |-> Some(ProbeHits(probes)),
                              analysis |-> analysis ])
           /\ first_ret' = [first_ret EXCEPT
                  ![domain] = IF @ = NoneOpt THEN Some(analysis) ELSE @]
    /\ analyzing' = [analyzing EXCEPT ![domain] = @ - 1]
    /\ UNCHANGED <<wf, patterns, probe_rounds, f_in, f_out,
                   scan_input, scan_pos, scan_output>>
    /\ UNCHANGED notWildVars

AnalyzeNext ==
    \/ \E domain \in AnalysisZones : AnalyzeWildcard(domain)
    \/ \E domain \in AnalysisZones, probes \in ProbeOutcomes :
           AnalyzeProbed(domain, probes)

(***************************************************************************)
(* WildcardFilter (wildcard.rs): test_wildcard, is_wildcard, filter        *)
(***************************************************************************)
\* the simulated zones: every undefined label of wild.example resolves (to
\* WildcardIp); no undefined label of any other domain resolves
WildcardZones == {WildZone}
\* whether resolver_pool.query(<random label>.domain, A) is Ok
RandomLabelResolves(domain) == domain \in WildcardZones

\* the domains is_wildcard can reach from the modelled records
PatternDomains == {WildZone, OtherZone, <<"example">>}
NoPatterns == [ d \in PatternDomains |-> NoneOpt ]

IpValue(ip) == [ kind |-> "Ip", text |-> ip ]
ARecord(domain, ip) ==
    [ domain |-> domain, record_type |-> "A", value |-> IpValue(ip) ]

\* test_wildcard(domain) on the patterns map `pat`: what it returns and the
\* map it leaves
TestWildcard(pat, domain) ==
    IF pat[domain] # NoneOpt
    THEN [ result |-> pat[domain][1], patterns |-> pat ]
    ELSE [ result |-> RandomLabelResolves(domain),
           patterns |-> [pat EXCEPT ![domain] = Some(RandomLabelResolves(domain))] ]

RECURSIVE IsWildcardFrom(_, _, _)
\* the loop `for i in 1..parts.len()` of is_wildcard, from index i on
IsWildcardFrom(pat, parts, i) ==
    IF i >= Len(parts)
    THEN [ result |-> FALSE, patterns |-> pat ]
    ELSE LET domain_to_test == SubSeq(parts, i + 1, Len(parts))
             tested == TestWildcard(pat, domain_to_test)
         IN  IF tested.result
             THEN [ result |-> TRUE, patterns |-> tested.patterns ]
             ELSE IsWildcardFrom(tested.patterns, parts, i + 1)

IsWildcard(pat, domain) ==
    IF Len(domain) < 2
    THEN [ result |-> FALSE, patterns |-> pat ]
    ELSE IsWildcardFrom(pat, domain, 1)

\* the key filter_by_ip groups a record under
GroupKey(record) ==
    IF record.value.kind = "Ip" THEN record.value.text
    ELSE record.value.text

\* ip_to_domains[key]: the records of one group, in input order
GroupOf(records, key) == SelectSeq(records, LAMBDA r : GroupKey(r) = key)

\* the orders in which the HashMap ip_to_domains can be iterated
GroupOrders(records) ==
    LET keys == { GroupKey(records[i]) : i \in 1..Len(records) }
    IN  { order \in [1..Cardinality(keys) -> keys] :
            \A i, j \in 1..Cardinality(keys) : order[i] = order[j] => i = j }

RECURSIVE FilterGroups(_, _, _, _, _)
\* the loop "Check each IP group for wildcard patterns" over the first n
\* groups of `order`: the records kept so far and the patterns map
FilterGroups(records, order, n, threshold, pat) ==
    IF n = 0
    THEN [ filtered |-> <<>>, patterns |-> pat ]
    ELSE LET sofar == FilterGroups(records, order, n - 1, threshold, pat)
             domain_records == GroupOf(records, order[n])
         IN  IF Len(domain_records) >= threshold
             THEN LET tested == IsWildcard(sofar.patterns,
                                           domain_records[1].domain)
                  IN  IF ~tested.result
                      THEN [ filtered |-> sofar.filtered \o domain_records,
                             patterns |-> tested.patterns ]
                      ELSE [ filtered |-> sofar.filtered,
                             patterns |-> tested.patterns ]
             ELSE [ filtered |-> sofar.filtered \o domain_records,
                    patterns |-> sofar.patterns ]

\* filter_by_ip(records): the results the iteration orders allow
FilterByIp(filter, pat, records) ==
    { FilterGroups(records, order, Len(order), filter.threshold, pat) :
        order \in GroupOrders(records) }

\* WildcardFilter::filter(records)
FilterOutcomes(filter, pat, records) ==
    IF filter.base_domain = NoneOpt
    THEN { [ filtered |-> records, patterns |-> pat ] }
    ELSE FilterByIp(filter, pat, records)

WildcardFilterNew(base_domain, threshold) ==
    [ base_domain |-> base_domain, threshold |-> threshold ]

\* the records given to filter(): hosts of the wildcard zone and of another
\* zone, at the wildcard address or at another one
FilterDomains ==
    { <<"a">> \o WildZone, <<"b">> \o WildZone, <<"c">> \o OtherZone }
FilterRecords == { ARecord(d, ip) : d \in FilterDomains, ip \in ProbeIps }
FilterInputs == UNION { [1..n -> FilterRecords] : n \in 0..MaxRecords }

Filter(records) ==
    /\ \E outcome \in FilterOutcomes(wf, patterns, records) :
          /\ f_out' = Some(outcome.filtered)
          /\ patterns' = outcome.patterns
    /\ f_in' = Some(records)
    /\ UNCHANGED <<wf, analysis_cache, analyzing, probe_rounds, first_ret,
                   a_ret, scan_input, scan_pos, scan_output>>
    /\ UNCHANGED notWildVars

FilterNext == \E records \in FilterInputs : Filter(records)

(***************************************************************************)
(* The query scan (commands/query.rs): the per-domain closure              *)
(***************************************************************************)
\* the threshold the query command builds its WildcardFilter with
query_threshold == 10

\* labels of hosts the wildcard answers for
WildLabels == <<"a", "b", "c", "d", "e", "f", "g", "h", "i", "j", "k", "l">>
WildHost(i) == <<WildLabels[i]>> \o WildZone
\* a host of the wildcard zone defined at another address, and a name that
\* does not exist
RealHost == <<"real">> \o WildZone
GoneHost == <<"gone">> \o OtherZone

\* client.query(domain, A) in the simulated zones: NoneOpt is an Err
ClientQuery(domain) ==
    IF domain = RealHost THEN Some(<<ARecord(domain, RealIp)>>)
    ELSE IF SubSeq(domain, 2, Len(domain)) \in WildcardZones
         THEN Some(<<ARecord(domain, WildcardIp)>>)
         ELSE NoneOpt

\* the first n wildcard hosts with `extra` put in after the first p of them
ScanList(n, p, extra) ==
    [ i \in 1..p |-> WildHost(i) ] \o extra \o [ i \in 1..(n - p) |-> WildHost(p + i) ]
ScanInputs ==
    UNION { { ScanList(n, p, extra) :
                p \in 0..n, extra \in {<<>>, <<RealHost>>, <<GoneHost>>} } :
            n \in 0..MaxScanWild }

\* the closure given to ConcurrentProcessor::new, run on the next domain
\* for record type A with no rcode filter: the answer of the query is
\* filtered on its own and appended to the records of the scan
ScanDomain ==
    /\ scan_pos < Len(scan_input)
    /\ LET domain == scan_input[scan_pos + 1]
           answer == ClientQuery(domain)
       IN  IF answer # NoneOpt
           THEN \E outcome \in FilterOutcomes(wf, patterns, answer[1]) :
                   /\ scan_output' = scan_output \o outcome.filtered
                   /\ patterns' = outcome.patterns
           ELSE UNCHANGED <<scan_output, patterns>>
    /\ scan_pos' = scan_pos + 1
    /\ UNCHANGED <<wf, analysis_cache, analyzing, probe_rounds, first_ret,
                   a_ret, f_in, f_out, scan_input>>
    /\ UNCHANGED notWildVars

ScanNext == ScanDomain

(***************************************************************************)
(* Initial states of the wildcard filter                                   *)
(***************************************************************************)
AnalysisIdle ==
    /\ analysis_cache = NoAnalyses
    /\ analyzing = NoRounds
    /\ probe_rounds = NoRounds
    /\ first_ret = NoAnalyses
    /\ a_ret = NoneOpt

FilterIdle ==
    /\ patterns = NoPatterns
    /\ f_in = NoneOpt
    /\ f_out = NoneOpt

ScanIdle ==
    /\ scan_input = <<>>
    /\ scan_pos = 0
    /\ scan_output = <<>>

\* a filter as the query command builds it
QueryFilter == WildcardFilterNew(Some(WildZone), query_threshold)

WildUnused ==
    /\ wf = QueryFilter
    /\ AnalysisIdle /\ FilterIdle /\ ScanIdle

AnalyzeInit ==
    /\ wf = QueryFilter
    /\ AnalysisIdle /\ FilterIdle /\ ScanIdle

FilterInit ==
    /\ wf \in { WildcardFilterNew(base_domain, threshold) :
                  base_domain \in {NoneOpt, Some(WildZone)},
                  threshold \in 1..MaxThreshold }
    /\ AnalysisIdle /\ FilterIdle /\ ScanIdle

ScanInit ==
    /\ wf = QueryFilter
    /\ AnalysisIdle /\ FilterIdle
    /\ scan_input \in ScanInputs
    /\ scan_pos = 0
    /\ scan_output = <<>>

(***************************************************************************)
(* QueryEngine::query and parse_rdata (query.rs)                           *)
(***************************************************************************)
\* rdata of the records of a Lookup: an A address, a CNAME target and a
\* type parse_rdata has no arm for
RdataValues ==
    { [ type |-> "A", text |-> "192.0.2.1" ],
      [ type |-> "CNAME", text |-> "t.example." ],
      [ type |-> "OPT", text |-> "OPT(..)" ] }

\* the records of a Lookup: record.data() is Some(rdata) or None
LookupRecords ==
    [ data : { Some(rdata) : rdata \in RdataValues } \cup {NoneOpt},
      ttl : {0, 300} ]
Lookups == UNION { [1..n -> LookupRecords] : n \in 0..MaxLookup }

\* what resolver_pool.query(domain, record_type) gives: an error, or a
\* Lookup and the address of the resolver that answered
PoolResults ==
    { [ ok |-> FALSE, lookup |-> <<>>, resolver_addr |-> "" ] }
    \cup { [ ok |-> TRUE, lookup |-> lookup, resolver_addr |-> addr ] :
             lookup \in Lookups, addr \in {"8.8.8.8:53", "backup-resolver"} }

\* parse_rdata(rdata): every arm is Ok
parse_rdata(rdata) ==
    CASE rdata.type = "A" -> IpValue(rdata.text)
      [] rdata.type = "CNAME" -> [ kind |-> "Domain", text |-> rdata.text ]
      [] OTHER -> [ kind |-> "Other", text |-> rdata.text ]

\* DnsRecord::new, without the wall-clock fields timestamp and query_time_ms
DnsRecordNew(domain, record_type, value, ttl, response_code, resolver) ==
    [ domain |-> domain, record_type |-> record_type, value |-> value,
      ttl |-> ttl, response_code |-> response_code, resolver |-> resolver ]

\* the loop "Extract records from lookup"
ExtractedRecords(domain, record_type, lookup, resolver_addr) ==
    [ i \in 1..Len(lookup) |->
        DnsRecordNew(domain, record_type, parse_rdata(lookup[i].data[1]),
                     lookup[i].ttl, "NoError", resolver_addr) ]

\* as QueryRecords, but without the record for an answer of no records
QueryRecordsAsExtracted(domain, record_type, lookup, resolver_addr) ==
    ExtractedRecords(domain, record_type, lookup, resolver_addr)

\* the records query returns for a Lookup all of whose records have data
QueryRecords(domain, record_type, lookup, resolver_addr) ==
    LET response_code == "NoError"
        records == ExtractedRecords(domain, record_type, lookup, resolver_addr)
    IN  IF records = <<>> /\ response_code = "NoError"
        THEN <<DnsRecordNew(domain, record_type,
                            [ kind |-> "Other", text |-> "No records found" ],
                            0, response_code, resolver_addr)>>
        ELSE records

\* QueryEngine::query(domain, record_type), the pool having given
\* pool_result: the error of the pool is passed on by `?`; a record
\* without data panics in expect()
QueryEngineQuery(domain, record_type, pool_result) ==
    /\ eq' = Some([ domain |-> domain, record_type |-> record_type,
                    pool_result |-> pool_result,
                    result |->
                      IF ~pool_result.ok
                      THEN [ kind |-> "err", records |-> <<>> ]
                      ELSE IF \E i \in 1..Len(pool_result.lookup) :
                                  pool_result.lookup[i].data = NoneOpt
                           THEN [ kind |-> "panic", records |-> <<>> ]
                           ELSE [ kind |-> "ok",
                                  records |->
                                    QueryRecords(domain, record_type,
                                                 pool_result.lookup,
                                                 pool_result.resolver_addr) ] ])
    /\ UNCHANGED notEngineVars

EngineInit == eq = NoneOpt
EngineUnused == eq = NoneOpt

EngineNext ==
    \E domain \in DomainNames, record_type \in RecordTypes,
       pool_result \in PoolResults :
        QueryEngineQuery(domain, record_type, pool_result)

(***************************************************************************)
(* ElasticsearchExporter and MongodbExporter (export/elasticsearch.rs,     *)
(* export/mongodb.rs): the two exporters keep the same buffer              *)
(***************************************************************************)
SinkKinds == {"elasticsearch", "mongodb"}

\* ElasticsearchExporter::new / MongodbExporter::new
BufferedExporterNew(kind, batch_size) ==
    [ kind |-> kind, batch_size |-> batch_size ]

\* how the bulk request / insert_many of one flush_buffer ends: "ok", or
\* "error" (an Err of send() or of insert_many, or a status that is not a
\* success), in which case the store has taken nothing
WriteOutcomes == {"ok", "error"}

\* flush_buffer() on the buffer `buf`: the buffer is drained before the
\* documents are sent, whatever becomes of the request
FlushBuffer(buf, received, outcome) ==
    IF buf = <<>>
    THEN [ ok |-> TRUE, buffer |-> buf, store |-> received, sent |-> <<>> ]
    ELSE IF outcome = "ok"
         THEN [ ok |-> TRUE, buffer |-> <<>>, store |-> received \o buf,
                sent |-> buf ]
         ELSE [ ok |-> FALSE, buffer |-> <<>>, store |-> received,
                sent |-> buf ]

\* the bulk requests after a flush_buffer() made by the call `by`: an empty
\* buffer sends nothing
WritesAfter(sent_so_far, by, flushed) ==
    IF flushed.sent = <<>>
    THEN sent_so_far
    ELSE Append(sent_so_far,
                [ by |-> by, size |-> Len(flushed.sent), ok |-> flushed.ok ])

\* `if buffer.len() >= self.batch_size` of export()
BufferFullWhenOver(buf, batch_size) == Len(buf) > batch_size

BufferFull(buf, batch_size) == Len(buf) >= batch_size

NoOp == [ op |-> "none", ok |-> TRUE ]

\* export(record) of the next record: push, and flush once the buffer has
\* reached batch_size
BufferedExport(outcome) ==
    /\ exports < MaxExports
    /\ exports' = exports + 1
    /\ LET pushed == Append(buffer, exports + 1)
       IN  IF BufferFull(pushed, sink.batch_size)
           THEN LET flushed == FlushBuffer(pushed, store, outcome)
                IN  /\ buffer' = flushed.buffer
                    /\ store' = flushed.store
                    /\ writes' = WritesAfter(writes, "export", flushed)
                    /\ last_op' = [ op |-> "export", ok |-> flushed.ok ]
                    /\ acked' = IF flushed.ok THEN acked \cup {exports + 1}
                                ELSE acked
           ELSE /\ buffer' = pushed
                /\ last_op' = [ op |-> "export", ok |-> TRUE ]
                /\ acked' = acked \cup {exports + 1}
                /\ UNCHANGED <<store, writes>>
    /\ UNCHANGED sink
    /\ UNCHANGED notBufferedVars

\* flush()
BufferedFlush(outcome) ==
    /\ LET flushed == FlushBuffer(buffer, store, outcome)
       IN  /\ buffer' = flushed.buffer
           /\ store' = flushed.store
           /\ last_op' = [ op |-> "flush", ok |-> flushed.ok ]
           /\ writes' = WritesAfter(writes, "flush", flushed)
    /\ UNCHANGED <<sink, exports, acked>>
    /\ UNCHANGED notBufferedVars

BufferedIdle ==
    /\ buffer = <<>>
    /\ store = <<>>
    /\ exports = 0
    /\ acked = {}
    /\ last_op = NoOp
    /\ writes = <<>>

BufferedInit ==
    /\ sink \in { BufferedExporterNew(kind, batch_size) :
                    kind \in SinkKinds, batch_size \in 1..MaxSinkBatch }
    /\ BufferedIdle

BufferedUnused ==
    /\ sink = BufferedExporterNew("elasticsearch", 1)
    /\ BufferedIdle

BufferedNext ==
    \/ \E outcome \in WriteOutcomes : BufferedExport(outcome)
    \/ \E outcome \in WriteOutcomes : BufferedFlush(outcome)

(***************************************************************************)
(* CassandraExporter (export/cassandra.rs)                                 *)
(***************************************************************************)
Workers == 1..NumWorkers

\* the fields of CassandraConfig the workers and export() read
CassandraConfigs ==
    [ batch_size : 1..MaxSinkBatch,
      retry_attempts : 0..MaxRetryAttempts,
      num_workers : {NumWorkers} ]

\* CassandraMetrics::default(); the timing fields are left out
DefaultMetrics ==
    [ total_records |-> 0, batches_processed |-> 0, errors |-> 0, retries |-> 0 ]

\* how the execute_batch calls of one process_batch would end, attempt by
\* attempt
AttemptResults(config) == [1..config.retry_attempts -> WriteOutcomes]

RECURSIVE RetryLoopCountingLast(_, _, _, _, _, _)
RECURSIVE RetryLoop(_, _, _, _, _, _)
\* as RetryLoop, but counting a retry after the last failed attempt too
RetryLoopCountingLast(m, config, batch_size, results, attempts, delays) ==
    IF attempts < config.retry_attempts
    THEN IF results[attempts + 1] = "ok"
         THEN [ ok |-> TRUE,
                metrics |-> [m EXCEPT !.total_records = @ + batch_size,
                                      !.batches_processed = @ + 1],
                executed |-> attempts + 1, delays |-> delays ]
         ELSE RetryLoopCountingLast([m EXCEPT !.retries = @ + 1], config,
                                    batch_size, results, attempts + 1,
                                    delays + 1)
    ELSE [ ok |-> FALSE, metrics |-> [m EXCEPT !.errors = @ + 1],
           executed |-> attempts, delays |-> delays ]

\* process_batch from the head of `while attempts < config.retry_attempts`
\* on: whether it returns Ok, the metrics it leaves, the number of
\* execute_batch calls made and of sleep(retry_delay) calls awaited
RetryLoop(m, config, batch_size, results, attempts, delays) ==
    IF attempts < config.retry_attempts
    THEN IF results[attempts + 1] = "ok"
         THEN [ ok |-> TRUE,
                metrics |-> [m EXCEPT !.total_records = @ + batch_size,
                                      !.batches_processed = @ + 1],
                executed |-> attempts + 1, delays |-> delays ]
         ELSE IF attempts + 1 < config.retry_attempts
              THEN RetryLoop([m EXCEPT !.retries = @ + 1], config, batch_size,
                             results, attempts + 1, delays + 1)
              ELSE RetryLoop(m, config, batch_size, results, attempts + 1,
                             delays)
    ELSE [ ok |-> FALSE, metrics |-> [m EXCEPT !.errors = @ + 1],
           executed |-> attempts, delays |-> delays ]

\* process_batch(.., batch, ..)
ProcessBatch(m, config, records, results) ==
    RetryLoop(m, config, Len(records), results, 0, 0)

\* what the latest process_batch call did, as differences of the metrics
BatchReport(m, config, records, results) ==
    LET done == ProcessBatch(m, config, records, results)
    IN  Some([ batch_size |-> Len(records), results |-> results,
               ok |-> done.ok, executed |-> done.executed,
               delays |-> done.delays,
               total_records |-> done.metrics.total_records - m.total_records,
               batches_processed |->
                   done.metrics.batches_processed - m.batches_processed,
               errors |-> done.metrics.errors - m.errors,
               retries |-> done.metrics.retries - m.retries ])

\* export(record) of the next record: round-robin over the senders; send
\* fails when the receiver of the channel is gone
CassExport ==
    /\ flush_pc = "idle"
    /\ next_worker < MaxExports
    /\ LET worker_index == (next_worker % cass_config.num_workers) + 1
       IN  IF worker[worker_index] = "running"
           THEN /\ channel' = [channel EXCEPT
                        ![worker_index] = Append(@, next_worker + 1)]
                /\ last_export' = Some(TRUE)
           ELSE /\ last_export' = Some(FALSE)
                /\ UNCHANGED channel
    /\ next_worker' = next_worker + 1
    /\ pb' = NoneOpt
    /\ UNCHANGED <<cass_config, record_senders, batch, worker, metrics, table,
                   flush_pc>>
    /\ UNCHANGED notCassVars

\* the worker's process_batch(batch)?: the batch is written and a new one
\* begun, or the task ends with the error
WorkerProcess(w, records, results, ends) ==
    LET done == ProcessBatch(metrics, cass_config, records, results)
    IN  /\ metrics' = done.metrics
        /\ pb' = BatchReport(metrics, cass_config, records, results)
        /\ batch' = [batch EXCEPT ![w] = <<>>]
        /\ table' = IF done.ok THEN table \cup SeqRange(records) ELSE table
        /\ worker' = [worker EXCEPT
               ![w] = IF ~done.ok THEN "err" ELSE IF ends THEN "ok" ELSE @]

\* one turn of the task spawn_worker starts: `rx.recv().await` gives the
\* next record, or None once the channel is empty and has no sender left;
\* `results` is how the writes of this turn would end
WorkerTurn(w, results) ==
    /\ worker[w] = "running"
    /\ IF channel[w] # <<>>
       THEN /\ channel' = [channel EXCEPT ![w] = Tail(@)]
            /\ LET pushed == Append(batch[w], Head(channel[w]))
               IN  IF Len(pushed) >= cass_config.batch_size
                   THEN WorkerProcess(w, pushed, results, FALSE)
                   ELSE /\ batch' = [batch EXCEPT ![w] = pushed]
                        /\ pb' = NoneOpt
                        /\ UNCHANGED <<metrics, table, worker>>
       ELSE /\ record_senders[w] = 0
            /\ UNCHANGED channel
            /\ IF batch[w] # <<>>
               THEN WorkerProcess(w, batch[w], results, TRUE)
               ELSE /\ worker' = [worker EXCEPT ![w] = "ok"]
                    /\ pb' = NoneOpt
                    /\ UNCHANGED <<batch, metrics, table>>
    /\ UNCHANGED <<cass_config, record_senders, next_worker, last_export,
                   flush_pc>>
    /\ UNCHANGED notCassVars

\* the task of worker w takes its next turn
WorkerStep(w) ==
    \E results \in AttemptResults(cass_config) : WorkerTurn(w, results)

\* `drop(self.record_senders.clone())`: every sender is cloned and the
\* clones are dropped
DropClone(senders) == [ w \in DOMAIN senders |-> (senders[w] + 1) - 1 ]

\* flush() up to its first await
CassFlush ==
    /\ flush_pc = "idle"
    /\ record_senders' = DropClone(record_senders)
    /\ flush_pc' = IF NumWorkers = 0 THEN "ok" ELSE "await"
    /\ pb' = NoneOpt
    /\ UNCHANGED <<cass_config, channel, batch, worker, metrics, table,
                   next_worker, last_export>>
    /\ UNCHANGED notCassVars

\* the first worker that has not ended well
FirstUnfinished == CHOOSE w \in Workers :
    /\ worker[w] # "ok"
    /\ \A v \in Workers : v < w => worker[v] = "ok"

\* the loop "Wait for all workers to complete" of flush(): it goes on when
\* the awaited task has ended
CassFlushAwait ==
    /\ flush_pc = "await"
    /\ IF \A w \in Workers : worker[w] = "ok"
       THEN flush_pc' = "ok"
       ELSE /\ worker[FirstUnfinished] = "err"
            /\ flush_pc' = "err"
    /\ pb' = NoneOpt
    /\ UNCHANGED <<cass_config, record_senders, channel, batch, worker,
                   metrics, table, next_worker, last_export>>
    /\ UNCHANGED notCassVars

CassIdle ==
    /\ record_senders = [ w \in Workers |-> 1 ]
    /\ channel = [ w \in Workers |-> <<>> ]
    /\ batch = [ w \in Workers |-> <<>> ]
    /\ worker = [ w \in Workers |-> "running" ]
    /\ metrics = DefaultMetrics
    /\ table = {}
    /\ next_worker = 0
    /\ last_export = NoneOpt
    /\ flush_pc = "idle"
    /\ pb = NoneOpt

\* CassandraExporter::with_config(config)
CassInit ==
    /\ cass_config \in CassandraConfigs
    /\ CassIdle

CassUnused ==
    /\ cass_config = [ batch_size |-> 1, retry_attempts |-> 1,
                       num_workers |-> NumWorkers ]
    /\ CassIdle

CassNext ==
    \/ CassExport
    \/ \E w \in Workers : WorkerStep(w)
    \/ CassFlush
    \/ CassFlushAwait


(***************************************************************************)
(* ElasticsearchExporter / MongodbExporter called by concurrent tasks      *)
(***************************************************************************)
ExportTasks == 1..NumExportTasks

NoTask == 0

ConcQuiet ==
    /\ cx_lock = NoTask
    /\ cx_waiters = <<>>
    /\ cx_buffer = <<>>
    /\ cx_pc = [ t \in ExportTasks |-> "idle" ]
    /\ cx_doc = [ t \in ExportTasks |-> 0 ]
    /\ cx_sending = [ t \in ExportTasks |-> <<>> ]
    /\ cx_store = <<>>
    /\ cx_bulk = <<>>
    /\ cx_exports = 0

ConcInit ==
    /\ cx_batch_size \in 1..MaxSinkBatch
    /\ ConcQuiet

ConcUnused ==
    /\ cx_batch_size = 1
    /\ ConcQuiet

\* export(record) is called by task t: the document is built and the task
\* enters `self.buffer.lock().await`
ConcExportCall(t) ==
    /\ cx_pc[t] = "idle"
    /\ cx_exports < MaxConcExports
    /\ cx_exports' = cx_exports + 1
    /\ cx_doc' = [ cx_doc EXCEPT ![t] = cx_exports + 1 ]
    /\ cx_pc' = [ cx_pc EXCEPT ![t] = "export_lock" ]
    /\ cx_waiters' = Append(cx_waiters, t)
    /\ UNCHANGED <<cx_batch_size, cx_lock, cx_buffer, cx_sending, cx_store,
                   cx_bulk>>
    /\ UNCHANGED notConcVars

\* flush() is called by task t: flush_buffer enters `self.buffer.lock().await`
ConcFlushCall(t) ==
    /\ cx_pc[t] = "idle"
    /\ cx_pc' = [ cx_pc EXCEPT ![t] = "flush_lock" ]
    /\ cx_waiters' = Append(cx_waiters, t)
    /\ UNCHANGED <<cx_batch_size, cx_lock, cx_buffer, cx_doc, cx_sending,
                   cx_store, cx_bulk, cx_exports>>
    /\ UNCHANGED notConcVars

\* the lock of export() is granted to task t: push; a buffer that has
\* reached batch_size makes the task drop the guard and call flush_buffer,
\* which waits for the lock again, behind the tasks already waiting; else
\* the guard is dropped by the return of Ok
ConcExportLocked(t) ==
    /\ cx_lock = NoTask
    /\ cx_waiters # <<>>
    /\ Head(cx_waiters) = t
    /\ cx_pc[t] = "export_lock"
    /\ LET pushed == Append(cx_buffer, cx_doc[t])
       IN  /\ cx_buffer' = pushed
           /\ IF BufferFull(pushed, cx_batch_size)
              THEN /\ cx_pc' = [ cx_pc EXCEPT ![t] = "flush_lock" ]
                   /\ cx_waiters' = Append(Tail(cx_waiters), t)
              ELSE /\ cx_pc' = [ cx_pc EXCEPT ![t] = "idle" ]
                   /\ cx_waiters' = Tail(cx_waiters)
    /\ cx_doc' = [ cx_doc EXCEPT ![t] = 0 ]
    /\ UNCHANGED <<cx_batch_size, cx_lock, cx_sending, cx_store, cx_bulk,
                   cx_exports>>
    /\ UNCHANGED notConcVars

\* the lock of flush_buffer() is granted to task t: an empty buffer returns
\* Ok; else the buffer is drained into one bulk request, which is sent and
\* awaited with the guard `buffer` still alive
ConcFlushLocked(t) ==
    /\ cx_lock = NoTask
    /\ cx_waiters # <<>>
    /\ Head(cx_waiters) = t
    /\ cx_pc[t] = "flush_lock"
    /\ cx_waiters' = Tail(cx_waiters)
    /\ IF cx_buffer = <<>>
       THEN /\ cx_pc' = [ cx_pc EXCEPT ![t] = "idle" ]
            /\ UNCHANGED <<cx_lock, cx_buffer, cx_sending>>
       ELSE /\ cx_pc' = [ cx_pc EXCEPT ![t] = "io" ]
            /\ cx_lock' = t
            /\ cx_sending' = [ cx_sending EXCEPT ![t] = cx_buffer ]
            /\ cx_buffer' = <<>>
    /\ UNCHANGED <<cx_batch_size, cx_doc, cx_store, cx_bulk, cx_exports>>
    /\ UNCHANGED notConcVars

\* the bulk request of task t ends: flush_buffer returns, which drops the
\* guard
ConcWriteDone(t, outcome) ==
    /\ cx_pc[t] = "io"
    /\ cx_bulk' = Append(cx_bulk, [ size |-> Len(cx_sending[t]),
                                    ok |-> outcome = "ok" ])
    /\ cx_store' = IF outcome = "ok" THEN cx_store \o cx_sending[t]
                   ELSE cx_store
    /\ cx_sending' = [ cx_sending EXCEPT ![t] = <<>> ]
    /\ cx_lock' = NoTask
    /\ cx_pc' = [ cx_pc EXCEPT ![t] = "idle" ]
    /\ UNCHANGED <<cx_batch_size, cx_waiters, cx_buffer, cx_doc, cx_exports>>
    /\ UNCHANGED notConcVars

ConcWrite(t) == \E outcome \in WriteOutcomes : ConcWriteDone(t, outcome)

ConcNext ==
    \/ \E t \in ExportTasks : ConcExportCall(t)
    \/ \E t \in ExportTasks : ConcFlushCall(t)
    \/ \E t \in ExportTasks : ConcExportLocked(t)
    \/ \E t \in ExportTasks : ConcFlushLocked(t)
    \/ \E t \in ExportTasks : ConcWrite(t)


(***************************************************************************)
(* CassandraExporter::export on several instances in one process           *)
(***************************************************************************)
Exporters == 1..NumExporters

NoExport == [ exporter |-> 0, worker_index |-> 0 ]

\* `NEXT_WORKER.fetch_add(1, Relaxed) % self.record_senders.len()`, from
\* the value fetch_add returns
WorkerIndex(fetched, senders_len) == fetched % senders_len

FanQuiet ==
    /\ fan_next = 0
    /\ fan_routed = [ e \in Exporters |-> [ w \in 0..(fan_senders[e] - 1) |-> 0 ] ]
    /\ fan_last = NoExport

\* with_config of each instance: one sender per worker, num_workers >= 1
FanInit ==
    /\ fan_senders \in [ Exporters -> 1..MaxFanWorkers ]
    /\ FanQuiet

FanUnused ==
    /\ fan_senders = [ e \in Exporters |-> 1 ]
    /\ FanQuiet

\* export(record) on instance e with every worker running: NEXT_WORKER is
\* one static for the whole process
FanExport(e) ==
    /\ fan_next < MaxFanExports
    /\ LET worker_index == WorkerIndex(fan_next, fan_senders[e])
       IN  /\ fan_routed' = [ fan_routed EXCEPT ![e][worker_index] = @ + 1 ]
           /\ fan_last' = [ exporter |-> e, worker_index |-> worker_index ]
    /\ fan_next' = fan_next + 1
    /\ UNCHANGED fan_senders
    /\ UNCHANGED notFanVars

FanNext == \E e \in Exporters : FanExport(e)


(***************************************************************************)
(* commands::query::run from "Output all records" to its return            *)
(***************************************************************************)
\* es_exporter, mongo_exporter, cassandra_exporter, as run() goes through
\* them
SinkOrder == <<"elasticsearch", "mongodb", "cassandra">>

Sinks == SeqRange(SinkOrder)

NoExit == -1

\* the first enabled sink at or after place i of SinkOrder, 0 when there is
\* none: the `if let Some(ref exporter)` tests
NextSink(enabled, i) ==
    LET later == { j \in i..Len(SinkOrder) : SinkOrder[j] \in enabled }
    IN  IF later = {} THEN 0
        ELSE CHOOSE j \in later : \A k \in later : j <= k

\* where run() is once the loop over all_records has ended
AtFlush(enabled) ==
    IF NextSink(enabled, 1) = 0
    THEN [ pc |-> "output_flush", rec |-> 0, sink |-> 0 ]
    ELSE [ pc |-> "flush", rec |-> 0, sink |-> NextSink(enabled, 1) ]

\* where run() is once record rec has been written and offered to the sinks
AfterRecord(enabled, n, rec) ==
    IF rec < n
    THEN [ pc |-> "write", rec |-> rec + 1, sink |-> 0 ]
    ELSE AtFlush(enabled)

\* where run() is at the top of the loop
AtLoop(enabled, n) ==
    IF n = 0 THEN AtFlush(enabled)
    ELSE [ pc |-> "write", rec |-> 1, sink |-> 0 ]

\* where run() goes after the sink at place i has been dealt with for
\* record rec
AfterSink(enabled, n, rec, i) ==
    IF NextSink(enabled, i + 1) = 0
    THEN AfterRecord(enabled, n, rec)
    ELSE [ pc |-> "export", rec |-> rec, sink |-> NextSink(enabled, i + 1) ]

Returned0 == [ pc |-> "returned", rec |-> 0, sink |-> 0 ]

\* `if let Err(e) = exporter.export(record.clone()).await { eprintln!(..) }`:
\* where run() goes after export() of record rec on the sink at place i
\* has returned
AfterExportHalting(enabled, n, rec, i, outcome) ==
    IF outcome = "ok" THEN AfterSink(enabled, n, rec, i) ELSE Returned0

AfterExport(enabled, n, rec, i, outcome) ==
    AfterSink(enabled, n, rec, i)

\* how flush() of a sink can end: the Cassandra exporter's flush() returns
\* the error of a worker that has failed and otherwise waits for workers
\* that never end
FlushOutcomes(sink_name) ==
    IF sink_name = "cassandra" THEN {"error", "hang"} ELSE {"ok", "error"}

RunQuiet ==
    /\ run_at = AtLoop(run_sinks, run_n)
    /\ run_written = <<>>
    /\ run_offered = [ s \in Sinks |-> <<>> ]
    /\ run_failed = {}
    /\ run_flushed = <<>>
    /\ run_out_err = FALSE
    /\ run_exit = NoExit

RunInit ==
    /\ run_sinks \in SUBSET Sinks
    /\ run_n \in 0..MaxRunRecords
    /\ RunQuiet

RunUnused ==
    /\ run_sinks = {}
    /\ run_n = 0
    /\ RunQuiet

\* output.write_record(&record, args.resp_only)?
RunWriteRecord(outcome) ==
    /\ run_at.pc = "write"
    /\ IF outcome = "ok"
       THEN /\ run_written' = Append(run_written, run_at.rec)
            /\ run_at' = IF NextSink(run_sinks, 1) = 0
                         THEN AfterRecord(run_sinks, run_n, run_at.rec)
                         ELSE [ pc |-> "export", rec |-> run_at.rec,
                                sink |-> NextSink(run_sinks, 1) ]
            /\ UNCHANGED <<run_out_err, run_exit>>
       ELSE /\ run_at' = Returned0
            /\ run_out_err' = TRUE
            /\ run_exit' = 1
            /\ UNCHANGED run_written
    /\ UNCHANGED <<run_sinks, run_n, run_offered, run_failed, run_flushed>>
    /\ UNCHANGED notRunVars

\* exporter.export(record.clone()).await on the sink run() has come to
RunExport(outcome) ==
    /\ run_at.pc = "export"
    /\ LET s == SinkOrder[run_at.sink]
           next == AfterExport(run_sinks, run_n, run_at.rec, run_at.sink, outcome)
       IN  /\ run_offered' = [ run_offered EXCEPT ![s] = Append(@, run_at.rec) ]
           /\ run_failed' = IF outcome = "ok" THEN run_failed
                            ELSE run_failed \cup { <<run_at.rec, s>> }
           /\ run_at' = next
           /\ run_exit' = IF next.pc = "returned" THEN 1 ELSE run_exit
    /\ UNCHANGED <<run_sinks, run_n, run_written, run_flushed, run_out_err>>
    /\ UNCHANGED notRunVars

\* exporter.flush().await.map_err(..)? on the sink run() has come to
RunFlush(outcome) ==
    /\ run_at.pc = "flush"
    /\ outcome \in FlushOutcomes(SinkOrder[run_at.sink])
    /\ run_flushed' = Append(run_flushed, SinkOrder[run_at.sink])
    /\ CASE outcome = "ok" ->
              /\ run_at' = IF NextSink(run_sinks, run_at.sink + 1) = 0
                           THEN [ pc |-> "output_flush", rec |-> 0, sink |-> 0 ]
                           ELSE [ pc |-> "flush", rec |-> 0,
                                  sink |-> NextSink(run_sinks, run_at.sink + 1) ]
              /\ UNCHANGED run_exit
         [] outcome = "error" ->
              /\ run_at' = Returned0
              /\ run_exit' = 1
         [] outcome = "hang" ->
              /\ run_at' = [ pc |-> "hung", rec |-> 0, sink |-> run_at.sink ]
              /\ UNCHANGED run_exit
    /\ UNCHANGED <<run_sinks, run_n, run_written, run_offered, run_failed,
                   run_out_err>>
    /\ UNCHANGED notRunVars

\* output.flush()?; Ok(())
RunOutputFlush(outcome) ==
    /\ run_at.pc = "output_flush"
    /\ run_at' = Returned0
    /\ run_out_err' = (outcome # "ok")
    /\ run_exit' = IF outcome = "ok" THEN 0 ELSE 1
    /\ UNCHANGED <<run_sinks, run_n, run_written, run_offered, run_failed,
                   run_flushed>>
    /\ UNCHANGED notRunVars

RunNext ==
    \/ \E outcome \in WriteOutcomes : RunWriteRecord(outcome)
    \/ \E outcome \in WriteOutcomes : RunExport(outcome)
    \/ \E outcome \in {"ok", "error", "hang"} : RunFlush(outcome)
    \/ \E outcome \in WriteOutcomes : RunOutputFlush(outcome)


(***************************************************************************)
(* determine_record_types and RecordType::to_hickory                       *)
(***************************************************************************)
\* the enum RecordType, each variant under the name its Display prints
RecordTypeAll ==
    <<"A", "AAAA", "CNAME", "MX", "TXT", "NS", "SOA", "PTR", "SRV", "AFSDB",
      "CAA", "CERT", "DNAME", "DNSKEY", "DS", "HINFO", "HTTPS", "KEY", "LOC",
      "NAPTR", "NSEC", "NSEC3", "OPT", "RRSIG", "SSHFP", "SVCB", "TLSA",
      "URI">>

\* the values of --record-type that the match of determine_record_types
\* knows, in upper case
KnownTypeNames ==
    {"A", "AAAA", "CNAME", "MX", "TXT", "NS", "SOA", "PTR", "SRV", "CAA",
     "CERT", "DNAME", "DNSKEY", "DS", "HINFO", "HTTPS", "KEY", "LOC",
     "NAPTR", "NSEC", "NSEC3", "OPT", "RRSIG", "SSHFP", "SVCB", "TLSA",
     "URI"}

\* what a user can pass to --record-type: the name of any variant, and a
\* name that is no record type
RequestNames == SeqRange(RecordTypeAll) \cup {"BOGUS"}

\* determine_record_types when --record-type is given: a known name pushes
\* its variant, any other name is warned about and ignored
RECURSIVE DetermineRecordTypes(_)
DetermineRecordTypes(names) ==
    IF names = <<>> THEN <<>>
    ELSE IF Head(names) \in KnownTypeNames
         THEN <<Head(names)>> \o DetermineRecordTypes(Tail(names))
         ELSE DetermineRecordTypes(Tail(names))

\* RecordType::to_hickory: the name of the hickory RecordType returned
ToHickory(record_type) ==
    CASE record_type = "A" -> "A"
      [] record_type = "AAAA" -> "AAAA"
      [] record_type = "CNAME" -> "CNAME"
      [] record_type = "MX" -> "MX"
      [] record_type = "TXT" -> "TXT"
      [] record_type = "NS" -> "NS"
      [] record_type = "SOA" -> "SOA"
      [] record_type = "PTR" -> "PTR"
      [] record_type = "SRV" -> "SRV"
      [] record_type = "CAA" -> "CAA"
      [] record_type = "DNAME" -> "ANAME"
      [] record_type = "DNSKEY" -> "DNSKEY"
      [] record_type = "DS" -> "DS"
      [] record_type = "HINFO" -> "HINFO"
      [] record_type = "HTTPS" -> "HTTPS"
      [] record_type = "KEY" -> "KEY"
      [] record_type = "NAPTR" -> "NAPTR"
      [] record_type = "NSEC" -> "NSEC"
      [] record_type = "NSEC3" -> "NSEC3"
      [] record_type = "OPT" -> "OPT"
      [] record_type = "RRSIG" -> "RRSIG"
      [] record_type = "SSHFP" -> "SSHFP"
      [] record_type = "SVCB" -> "SVCB"
      [] record_type = "TLSA" -> "TLSA"
      [] record_type \in {"AFSDB", "CERT", "LOC", "URI"} -> "A"

TypeQuiet ==
    /\ tq_types = NoneOpt
    /\ tq_wire = <<>>

\* a request with one or more values of --record-type
TypeInit ==
    /\ tq_args \in UNION { [ 1..n -> RequestNames ] : n \in 1..MaxRequested }
    /\ TypeQuiet

TypeUnused ==
    /\ tq_args = <<"A">>
    /\ TypeQuiet

\* let record_types = determine_record_types(&args)
DetermineTypes ==
    /\ tq_types = NoneOpt
    /\ tq_types' = Some(DetermineRecordTypes(tq_args))
    /\ UNCHANGED <<tq_args, tq_wire>>
    /\ UNCHANGED notTypeVars

\* the next record type of the request is converted for the wire
ConvertType ==
    /\ tq_types # NoneOpt
    /\ Len(tq_wire) < Len(tq_types[1])
    /\ tq_wire' = Append(tq_wire, ToHickory(tq_types[1][Len(tq_wire) + 1]))
    /\ UNCHANGED <<tq_args, tq_types>>
    /\ UNCHANGED notTypeVars

TypeNext ==
    \/ DetermineTypes
    \/ ConvertType


(***************************************************************************)
(* DomainStreamer::stream_domains                                          *)
(***************************************************************************)
\* the characters of an input: a letter, white space, the comment sign and
\* the line end
InputChars == {"a", " ", "#", "\n"}

\* lines.next() of BufRead::lines on the unread characters: the characters
\* up to the next line end, which is consumed and not part of the line;
\* None at the end of the input
ReadLine(unread) ==
    IF unread = <<>> THEN [ line |-> NoneOpt, rest |-> <<>> ]
    ELSE LET ends == { i \in 1..Len(unread) : unread[i] = "\n" }
         IN  IF ends = {}
             THEN [ line |-> Some(unread), rest |-> <<>> ]
             ELSE LET k == CHOOSE i \in ends : \A j \in ends : i <= j
                  IN  [ line |-> Some(SubSeq(unread, 1, k - 1)),
                        rest |-> SubSeq(unread, k + 1, Len(unread)) ]

\* str::trim_start and str::trim_end
RECURSIVE TrimStart(_)
TrimStart(line) ==
    IF line # <<>> /\ Head(line) = " " THEN TrimStart(Tail(line)) ELSE line

RECURSIVE TrimEnd(_)
TrimEnd(line) ==
    IF line # <<>> /\ line[Len(line)] = " "
    THEN TrimEnd(SubSeq(line, 1, Len(line) - 1))
    ELSE line

\* str::trim
Trim(line) == TrimEnd(TrimStart(line))

\* `trimmed.is_empty() || trimmed.starts_with('#')`
IsSkippedOnlyEmpty(trimmed) == trimmed = <<>>

IsSkipped(trimmed) == trimmed = <<>> \/ Head(trimmed) = "#"

\* one next() of the iterator stream_domains returns: the from_fn closure
\* turns a skipped line into an empty string, which filter_map drops by
\* asking for the next item, until a line is kept or the input has ended
RECURSIVE StreamDomainsNext(_)
StreamDomainsNext(unread) ==
    LET read == ReadLine(unread)
    IN  IF read.line = NoneOpt THEN [ item |-> NoneOpt, rest |-> <<>> ]
        ELSE LET trimmed == Trim(read.line[1])
             IN  IF IsSkipped(trimmed)
                 THEN StreamDomainsNext(read.rest)
                 ELSE [ item |-> Some(trimmed), rest |-> read.rest ]

StreamQuiet ==
    /\ sd_unread = sd_input
    /\ sd_yielded = <<>>
    /\ sd_ended = FALSE

\* DomainStreamer::new(reader).stream_domains() on a text input
StreamInit ==
    /\ sd_input \in UNION { [ 1..n -> InputChars ] : n \in 0..MaxInputLen }
    /\ StreamQuiet

StreamUnused ==
    /\ sd_input = <<>>
    /\ StreamQuiet

\* the consumer calls next()
StreamNextItem ==
    /\ ~sd_ended
    /\ LET got == StreamDomainsNext(sd_unread)
       IN  /\ sd_unread' = got.rest
           /\ IF got.item = NoneOpt
              THEN sd_ended' = TRUE /\ UNCHANGED sd_yielded
              ELSE sd_yielded' = Append(sd_yielded, got.item[1])
                   /\ UNCHANGED sd_ended
    /\ UNCHANGED sd_input
    /\ UNCHANGED notStreamVars

StreamNext == StreamNextItem


(***************************************************************************)
(* DnsCache::put on keys the cache already holds                           *)
(***************************************************************************)
NoPut == [ key |-> NoKey, found |-> {}, renewed |-> FALSE ]

OverwriteConfigs ==
    { DnsCacheNew(n, default_cache_ttl) : n \in 0..MaxOverwriteSize }

OwUnused == put_ret = NoPut

\* DnsCache::new(max_size, default_ttl)
OverwriteInit ==
    /\ ccfg \in OverwriteConfigs
    /\ cache = EmptyMap
    /\ writers = 0
    /\ inflight = NoCalls
    /\ last_put = [k \in CacheKeys |-> NeverPut]
    /\ evicted_for = NoKey
    /\ last_get = NoGet
    /\ wcall = NoCall
    /\ inner_calls = NoCalls
    /\ w_quiet = TRUE
    /\ put_ret = NoPut

\* DnsCache::put(key, records, ttl), from the call to the return: the body
\* runs under the write lock
DnsCachePut(key, records, ttl) ==
    /\ writers = 0
    /\ WriteLocked(key, records, ttl)
    /\ put_ret' = [ key |-> key, found |-> DOMAIN cache,
                     renewed |-> key \in DOMAIN cache /\ cache[key].age > 0 ]
    /\ UNCHANGED <<ccfg, writers, inflight, last_get, wcall, inner_calls>>
    /\ UNCHANGED notPutVars

OverwritePut ==
    \E key \in CacheKeys, args \in PutArgs : DnsCachePut(key, args[1], args[2])

OverwriteNext ==
    \/ OverwritePut
    \/ CacheTick

\* the components modelled so far, left as constructed
EarlierUnused ==
    PoolUnused /\ ProcUnused /\ RlUnused /\ SizerUnused /\ CacheUnused
    /\ WildUnused /\ EngineUnused /\ BufferedUnused /\ CassUnused

\* the components that follow them, left as constructed
LaterUnused ==
    /\ ConcUnused
    /\ FanUnused
    /\ RunUnused
    /\ TypeUnused
    /\ StreamUnused
    /\ OwUnused

(***************************************************************************)
(* Specifications                                                          *)
(***************************************************************************)
\* the resolver pool under concurrent callers
Init ==
    PoolInit /\ ProcUnused /\ RlUnused /\ SizerUnused /\ CacheUnused
    /\ WildUnused
    /\ CassUnused
    /\ BufferedUnused
    /\ EngineUnused
    /\ LaterUnused
Next == PoolNext
Spec == Init /\ [][Next]_vars

\* one process_stream call of a ConcurrentProcessor
ProcSpecInit ==
    ProcInit /\ PoolUnused /\ RlUnused /\ SizerUnused /\ CacheUnused
    /\ WildUnused
    /\ CassUnused
    /\ BufferedUnused
    /\ EngineUnused
    /\ LaterUnused
ProcSpec == ProcSpecInit /\ [][ProcNext]_vars

\* the same, with the runtime polling every future that can make progress
\* and time passing
FairProcSpec == ProcSpec /\ WF_vars(ProcNext)

\* threads calling wait() on one RateLimiter
RlSpecInit ==
    RlInit /\ PoolUnused /\ ProcUnused /\ SizerUnused /\ CacheUnused
    /\ WildUnused
    /\ CassUnused
    /\ BufferedUnused
    /\ EngineUnused
    /\ LaterUnused
RlSpec == RlSpecInit /\ [][RlNext]_vars

\* adjust() calls on one AdaptiveBatchSizer
SizerSpecInit ==
    SizerInit /\ PoolUnused /\ ProcUnused /\ RlUnused /\ CacheUnused
    /\ WildUnused
    /\ CassUnused
    /\ BufferedUnused
    /\ EngineUnused
    /\ LaterUnused
SizerSpec == SizerSpecInit /\ [][SizerNext]_vars

\* threads calling get, put and clear on one DnsCache while time passes
CacheSpecInit ==
    CacheInit /\ PoolUnused /\ ProcUnused /\ RlUnused /\ SizerUnused
    /\ WildUnused
    /\ CassUnused
    /\ BufferedUnused
    /\ EngineUnused
    /\ LaterUnused
CacheSpec == CacheSpecInit /\ [][CacheNext]_vars

\* tasks calling query and clear_cache on one CachedDnsClient while time
\* passes
CachedSpec == CacheSpecInit /\ [][CachedNext]_vars

OthersIdleForWild ==
    PoolUnused /\ ProcUnused /\ RlUnused /\ SizerUnused /\ CacheUnused
    /\ EngineUnused
    /\ BufferedUnused
    /\ CassUnused
    /\ LaterUnused

\* tasks calling analyze_wildcard on one WildcardFilter, whatever the
\* resolvers answer
AnalyzeSpecInit == AnalyzeInit /\ OthersIdleForWild
AnalyzeSpec == AnalyzeSpecInit /\ [][AnalyzeNext]_vars

\* filter() calls on one WildcardFilter in the simulated zones
FilterSpecInit == FilterInit /\ OthersIdleForWild
FilterSpec == FilterSpecInit /\ [][FilterNext]_vars

\* a query scan with wildcard filtering in the simulated zones
ScanSpecInit == ScanInit /\ OthersIdleForWild
ScanSpec == ScanSpecInit /\ [][ScanNext]_vars

\* QueryEngine::query calls, whatever the pool gives
EngineSpecInit ==
    EngineInit /\ PoolUnused /\ ProcUnused /\ RlUnused /\ SizerUnused
    /\ CacheUnused /\ WildUnused /\ BufferedUnused /\ CassUnused
    /\ LaterUnused
EngineSpec == EngineSpecInit /\ [][EngineNext]_vars

\* export() and flush() calls of the scan on one buffered exporter,
\* whatever becomes of the writes
BufferedSpecInit ==
    BufferedInit /\ PoolUnused /\ ProcUnused /\ RlUnused /\ SizerUnused
    /\ CacheUnused /\ WildUnused /\ EngineUnused /\ CassUnused
    /\ LaterUnused
BufferedSpec == BufferedSpecInit /\ [][BufferedNext]_vars

\* export() calls followed by flush() on one CassandraExporter and its
\* workers, whatever becomes of the writes
CassSpecInit ==
    CassInit /\ PoolUnused /\ ProcUnused /\ RlUnused /\ SizerUnused
    /\ CacheUnused /\ WildUnused /\ EngineUnused /\ BufferedUnused
    /\ LaterUnused
CassSpec == CassSpecInit /\ [][CassNext]_vars

\* the same, the runtime running every worker and flush() whenever they
\* can go on
FairCassSpec ==
    /\ CassSpec
    /\ \A w \in Workers :
          WF_vars(WorkerStep(w))
    /\ WF_vars(CassFlushAwait)

\* ---- later specifications ----


\* export() and flush() calls made by concurrent tasks on one buffered
\* exporter, whatever becomes of the writes
ConcSpecInit == ConcInit /\ EarlierUnused /\ FanUnused /\ RunUnused /\ TypeUnused
    /\ StreamUnused
    /\ OwUnused
ConcSpec == ConcSpecInit /\ [][ConcNext]_vars


\* export() calls on the CassandraExporter instances of one process, in
\* any order
FanSpecInit == FanInit /\ EarlierUnused /\ ConcUnused /\ RunUnused /\ TypeUnused
    /\ StreamUnused
    /\ OwUnused
FanSpec == FanSpecInit /\ [][FanNext]_vars


\* the query command from its output loop on, whatever the output writer
\* and the sinks answer
RunSpecInit == RunInit /\ EarlierUnused /\ ConcUnused /\ FanUnused /\ TypeUnused
    /\ StreamUnused
    /\ OwUnused
RunSpec == RunSpecInit /\ [][RunNext]_vars


\* the record types of one request, from the command line to the wire
TypeSpecInit == TypeInit /\ EarlierUnused /\ ConcUnused /\ FanUnused /\ RunUnused
    /\ StreamUnused
    /\ OwUnused
TypeSpec == TypeSpecInit /\ [][TypeNext]_vars


\* one iterator of stream_domains read to its end
StreamSpecInit ==
    StreamInit /\ EarlierUnused /\ ConcUnused /\ FanUnused /\ RunUnused
    /\ TypeUnused
    /\ OwUnused
StreamSpec == StreamSpecInit /\ [][StreamNext]_vars


\* put() calls on one DnsCache, one after another, with time passing
OverwriteSpecInit ==
    OverwriteInit /\ PoolUnused /\ ProcUnused /\ RlUnused /\ SizerUnused
    /\ WildUnused /\ EngineUnused /\ BufferedUnused /\ CassUnused
    /\ ConcUnused /\ FanUnused /\ RunUnused /\ TypeUnused /\ StreamUnused
OverwriteSpec == OverwriteSpecInit /\ [][OverwriteNext]_vars

(***************************************************************************)
(* Properties of the resolver pool                                         *)
(***************************************************************************)
\* queries that hold a pool permit
InFlight == { c \in Callers : qpc[c] \in {"parse", "primary", "backup"} }
\* a query has returned
Returned(c) == qpc[c] = "done"
\* the configured list R0..Rn as addresses
ResolverAddrs == [i \in 1..NumResolvers |-> ResolverAddr(i)]
\* s is a prefix of t
IsPrefix(s, t) == Len(s) <= Len(t) /\ \A i \in 1..Len(s) : s[i] = t[i]
\* a reply that section 4.1 of the specification counts as an answer
IsAnswer(outcome) == outcome \in {"ok", "nx"}

\* C1: the number of ResolverPool::query operations in flight (holding a
\* permit, backup attempts included) never exceeds the configured concurrency.
C1_PoolConcurrencyBound == Cardinality(InFlight) <= pool.concurrency

\* C1 witness: the pool is saturated, one query is on a backup resolver and
\* another caller is waiting for a permit.
C1_Witness ==
    /\ Cardinality(InFlight) = pool.concurrency
    /\ \E c \in Callers : qpc[c] = "backup" /\ Len(qcontacted[c]) >= 2
    /\ \E c \in Callers : qpc[c] = "acquire"

\* C3: with R0 timing out and R1 answering, the query returns R1's answer
\* and not a timeout error.
C3_TimeoutFallsThrough ==
    \A c \in Callers :
        ( /\ Returned(c)
          /\ NameParseOk(qdomain[c])
          /\ ~system_conf
          /\ NumResolvers >= 2
          /\ behaviour[1] = "timeout"
          /\ behaviour[2] = "ok" )
        => ( /\ qresult[c].kind = "ok"
             /\ qresult[c].producer = ResolverAddr(2) )

\* C4: the resolver identity returned by query is the `host:port` string of
\* the resolver that produced the answer (stated for the pools whose primary
\* resolver is the one built for R0; with the system configuration loaded
\* the answers attributed to R0 come from the system's resolver instead).
C4_IdentityIsProducer ==
    \A c \in Callers :
        (~system_conf /\ qresult[c].kind = "ok")
        => qresult[c].resolver = qresult[c].producer

\* C5: the resolvers are attempted strictly in list order R0..Rn, each at
\* most once, stopping at the first that answers; the query fails with
\* Resolve("all resolvers failed") exactly when all were attempted in vain
\* (stated for the pools whose primary resolver is the one built for R0).
C5_ListOrderAndExhaustion ==
    \A c \in Callers :
      ~system_conf =>
        /\ IsPrefix(qcontacted[c], ResolverAddrs)
        /\ \A i \in 1..(Len(qcontacted[c]) - 1) : ~IsAnswer(behaviour[i])
        /\ (Returned(c) /\ qresult[c].error = "Resolve: All resolvers failed")
             <=> ( /\ Returned(c)
                   /\ qcontacted[c] = ResolverAddrs
                   /\ \A i \in 1..NumResolvers : ~IsAnswer(behaviour[i]) )

\* C6: when R0 answers NxDomain the query returns at once with a successful
\* response and contacts no backup resolver.
C6_NxDomainReturnsImmediately ==
    \A c \in Callers :
        ( /\ ~system_conf
          /\ behaviour[1] = "nx"
          /\ Len(qcontacted[c]) >= 1 )
        => ( /\ Returned(c)
             /\ qresult[c].kind = "ok"
             /\ Len(qcontacted[c]) = 1 )

\* C7: the permit is released on every exit path: the available permits are
\* the configured ones minus those of the queries in flight, so with no
\* query in flight all `concurrency` permits are available.
C7_PermitReleased ==
    /\ semaphore = pool.concurrency - Cardinality(InFlight)
    /\ (InFlight = {} => semaphore = pool.concurrency)

\* C7 witness: queries have left through the invalid-name exit and through
\* the all-resolvers-failed exit, none is in flight, every permit is back.
C7_Witness ==
    /\ InFlight = {}
    /\ semaphore = pool.concurrency
    /\ \E c \in Callers : Returned(c) /\ qresult[c].error = "InvalidInput"
    /\ \E c \in Callers :
          Returned(c) /\ qresult[c].error = "Resolve: All resolvers failed"

(***************************************************************************)
(* Properties of the concurrent processor                                  *)
(***************************************************************************)
\* items whose op (query_fn under the timeout) is executing
Executing == { i \in Items : ipc[i] = "op" }
\* the items of the input
Input == 1..pitems
\* items whose op returned Ok within the deadline
OkItems == { i \in Input : op_outcome[i] = "ok" }

RECURSIVE OkRecordCount(_)
\* number of records of the Ok items among 1..n
OkRecordCount(n) ==
    IF n = 0 THEN 0
    ELSE OkRecordCount(n - 1)
         + (IF op_outcome[n] = "ok" THEN Len(OpRecords(n)) ELSE 0)

\* C2: at most max_concurrent ops execute at any moment; an op runs only
\* with its item's permit taken (and the limiter's gate passed, when one is
\* attached), and the permit is given back only once the op has returned,
\* failed or timed out.
C2_BoundedInFlight ==
    /\ Cardinality(Executing) <= pcfg.max_concurrent
    /\ \A i \in Executing :
          /\ i \in permit_held
          /\ LimiterAttached => i \in gate_passed
    /\ \A i \in Items :
          (op_calls[i] >= 1 /\ i \notin permit_held) => op_outcome[i] # "none"
    /\ psem = pcfg.max_concurrent - Cardinality(permit_held)
    /\ psem >= 0

\* C2 witness: with a limiter that makes items wait, max_concurrent = 2 ops
\* execute at once while a further item has not been pulled yet.
C2_Witness ==
    /\ LimiterAttached
    /\ limiter.interval > 0
    /\ pcfg.max_concurrent = 2
    /\ Cardinality(Executing) = 2
    /\ next_item <= pitems

C9_RateLimitedStreamTerminates ==
    (pcfg.rate_limit > 0 /\ pcfg.max_concurrent >= 2 /\ pitems >= 2)
    => <>(ppc = "done" /\ \A i \in Input : op_calls[i] = 1)

(***************************************************************************)
(* Properties of the rate limiter                                          *)
(***************************************************************************)
\* C10 as claimed: consecutive returns of wait() are at least `interval`
\* apart, and N returns span at least (N-1)/r seconds, that is
\* span * r >= (N-1) * 1000000 with the span in microseconds.
C10_SpanAtLeastNOverRate ==
    /\ rl_returns >= 2 => rl_gap >= rl.interval
    /\ rl_returns >= 1 => rl_span * rl_rate >= (rl_returns - 1) * 1000000

\* C10 amended: consecutive returns of wait() are at least `interval` =
\* 1000000 \div r microseconds apart, and N returns span at least
\* (N-1) * interval microseconds.
C10_SpanAtLeastIntervals ==
    /\ rl.interval = 1000000 \div rl_rate
    /\ rl_returns >= 2 => rl_gap >= rl.interval
    /\ rl_returns >= 1 => rl_span >= (rl_returns - 1) * rl.interval

\* C10 witness: at 300000/s (interval 3 us) three or more returns that are
\* exactly one interval apart each, the latest one just now.
C10_Witness ==
    /\ rl_rate = 300000
    /\ rl_returns >= 3
    /\ rl_since_return = 0
    /\ rl_gap = rl.interval
    /\ rl_span = (rl_returns - 1) * rl.interval

(***************************************************************************)
(* Properties of the adaptive batch sizer                                  *)
(***************************************************************************)
\* C11: a sizer created with min <= initial <= max keeps
\* min <= current_size <= max through every adjust(); an adjust with qps
\* above 1.1 * target does not decrease current_size, one with qps below
\* 0.9 * target does not increase it, and one with qps inside
\* [0.9 * target, 1.1 * target] leaves it unchanged.
C11_SizeBoundedAndMonotone ==
    /\ sizer.min_size <= sizer.current_size
    /\ sizer.current_size <= sizer.max_size
    /\ sz_calls > 0 =>
          /\ sz_qps * 10 > 11 * target_qps => sizer.current_size >= sz_prev
          /\ sz_qps * 10 < 9 * target_qps => sizer.current_size <= sz_prev
          /\ (9 * target_qps <= sz_qps * 10 /\ sz_qps * 10 <= 11 * target_qps)
                => sizer.current_size = sz_prev

\* two adjust() calls were made and the latest one, with qps above the band,
\* grew the batch size
C11_Witness ==
    /\ sz_calls >= 2
    /\ sz_qps * 10 > 11 * target_qps
    /\ sizer.current_size > sz_prev
    /\ sizer.min_size < sizer.current_size

\* C12: adjust(qps) with qps > 1.1 * target strictly increases current_size
\* whenever current_size < max_size, and adjust(qps) with qps < 0.9 * target
\* strictly decreases it whenever current_size > min_size, truncation
\* included.
C12_AdjustStrictlyMoves ==
    sz_calls > 0 =>
        /\ (sz_qps * 10 > 11 * target_qps /\ sz_prev < sizer.max_size)
              => sizer.current_size > sz_prev
        /\ (sz_qps * 10 < 9 * target_qps /\ sz_prev > sizer.min_size)
              => sizer.current_size < sz_prev

(***************************************************************************)
(* Properties of the response cache                                        *)
(***************************************************************************)
\* C13: after put(K, R, ttl), with no clear() and no evicting put since, a
\* get(K) issued while now - cached_at < ttl returns exactly R, also when
\* that put found the cache at capacity; a get(K) issued once the ttl has
\* elapsed returns nothing; a get on a key never put returns nothing.
C13_GetReturnsWhatWasPut ==
    last_get # NoGet =>
        LET h == last_put[last_get.key]
        IN /\ h.state = "live" => last_get.result = Some(h.records)
           /\ h.state = "expired" => last_get.result = NoneOpt
           /\ h.state = "never" => last_get.result = NoneOpt

\* a get has just returned the records of a put that found the cache at
\* capacity and called evict_oldest, after time has passed
C13_Witness ==
    /\ last_get # NoGet
    /\ last_get.key = evicted_for
    /\ ccfg.max_size >= 2
    /\ last_put[last_get.key].state = "live"
    /\ last_put[last_get.key].age > 0
    /\ last_get.result = Some(RecordsB)

\* C14: for every max_size, the number of entries is at most
\* max_size + concurrent_writers - 1 while puts are running and at most
\* max_size when no put is in progress.
C14_EntriesWithinCapacity ==
    /\ writers > 0 => MapLen(cache) <= ccfg.max_size + writers - 1
    /\ writers = 0 => MapLen(cache) <= ccfg.max_size

\* lowercase of the characters the model's names are written with
ToLower(ch) ==
    CASE ch = "E" -> "e"
      [] ch = "X" -> "x"
      [] OTHER -> ch

\* the normalized form of a domain name: lowercase, trailing dot stripped
Normalized(domain) ==
    LET lower == [i \in 1..Len(domain) |-> ToLower(domain[i])]
    IN IF Len(lower) > 0 /\ lower[Len(lower)] = "."
       THEN SubSeq(lower, 1, Len(lower) - 1)
       ELSE lower

\* C15: cache keys are normalized, so lookups whose domains differ only in
\* letter case or a trailing dot, with the same record type, address the
\* same entry, while keys that differ in record type are distinct entries.
C15_KeysAreNormalized ==
    /\ \A k \in DOMAIN cache : k.domain = Normalized(k.domain)
    /\ \A k1, k2 \in DOMAIN cache :
          (Normalized(k1.domain) = Normalized(k2.domain)
             /\ k1.record_type = k2.record_type) => k1 = k2
    /\ \A k1, k2 \in CacheKeys :
          k1.record_type # k2.record_type => k1 # k2

\* C16: put(key, records, Some(t)) stores ttl t; put(key, records, None)
\* stores the minimum TTL across the records, and the configured default
\* ttl only when the records give no TTL.
C16_StoredTtl ==
    \A k \in CacheKeys :
        LET h == last_put[k]
        IN h.state = "live" =>
              h.ttl = IF h.ttl_arg # NoneOpt THEN h.ttl_arg[1]
                      ELSE IF h.records # << >>
                           THEN MinOf({ h.records[i].ttl :
                                          i \in 1..Len(h.records) })
                           ELSE ccfg.default_ttl

C18_SecondQueryIsServedFromCache ==
    wcall.result \in {"hit", "miss"} =>
        LET h == last_put[wcall.key]
        IN h.state = "live" =>
              /\ wcall.result = "hit"
              /\ ~wcall.inner
              /\ wcall.records = h.records

\* a query has just been answered from the cache with the records of an
\* earlier answer, after time has passed
C18_Witness ==
    /\ wcall.result = "hit"
    /\ last_put[wcall.key].state = "live"
    /\ last_put[wcall.key].age > 0
    /\ wcall.records = RecordsB

\* C19: however concurrent query(d, rt) calls for one key interleave, while
\* they all fall within the ttl of the first answer the inner query is
\* called exactly once for that key.
C19_InnerCalledOnce ==
    \A k \in CacheKeys : w_quiet => inner_calls[k] <= 1

\* C20: when the inner query returns an error, query returns that error and
\* leaves the cache unchanged, so that a key that had no valid entry still
\* has none and the next query for it calls the inner again.
C20_NoNegativeCaching ==
    [][ (wcall'.result = "err" /\ inflight' # inflight) =>
            /\ cache' = cache
            /\ last_put' = last_put
            /\ \A k \in CacheKeys :
                  CacheLookup(cache', k) = CacheLookup(cache, k)
      ]_vars

\* a query has just returned the error of the inner query while the cache
\* holds the answer of another query
C20_Witness ==
    /\ wcall.result = "err"
    /\ cache # EmptyMap
    /\ \E k \in CacheKeys : k \notin DOMAIN cache /\ last_put[k].state = "never"

(***************************************************************************)
(* Properties of the wildcard filter                                       *)
(***************************************************************************)
\* the analyze_wildcard call that has just returned issued its own probes
FreshAnalysis == a_ret # NoneOpt /\ a_ret[1].hits # NoneOpt

\* the addresses the probes of that call returned
ReturnedIps == { ip \in ProbeIps : a_ret[1].hits[1][ip] > 0 }

\* C21: analyze_wildcard(Z) classifies from its five probes: when every probe
\* returned the one address X, has_wildcard is true, wildcard_ips is {X}
\* and the confidence is at least 0.9; when a single address was returned
\* and by fewer than 3 probes, has_wildcard is true with confidence 0.7;
\* when two or more addresses were returned, or none, has_wildcard is false.
C21_AnalysisClassifiesProbes ==
    FreshAnalysis =>
        LET hits == a_ret[1].hits[1]
            analysis == a_ret[1].analysis
        IN  /\ \A x \in ProbeIps :
                  (hits[x] = probe_count /\ ReturnedIps = {x}) =>
                      /\ analysis.has_wildcard
                      /\ SeqRange(analysis.wildcard_ips) = {x}
                      /\ analysis.confidence_score >= 9
            /\ \A x \in ProbeIps :
                  (ReturnedIps = {x} /\ hits[x] < 3) =>
                      /\ analysis.has_wildcard
                      /\ analysis.confidence_score = 7
            /\ Cardinality(ReturnedIps) # 1 => ~analysis.has_wildcard

\* a call whose probes returned one address, twice
C21_Witness ==
    /\ FreshAnalysis
    /\ ReturnedIps = {WildcardIp}
    /\ a_ret[1].hits[1][WildcardIp] = 2
    /\ a_ret[1].analysis.has_wildcard

\* C25: on one filter the probes for a zone are issued at most once, and
\* every analyze_wildcard call for the zone returns the same analysis,
\* whatever the interleaving of the calls.
C25_ProbedOnceSameAnalysis ==
    /\ \A z \in AnalysisZones : probe_rounds[z] <= 1
    /\ a_ret # NoneOpt =>
           Some(a_ret[1].analysis) = first_ret[a_ret[1].domain]

\* the zone a record's domain lies in, and what analyze_wildcard finds for a
\* zone of the simulated zones
ZoneOf(record) == SubSeq(record.domain, 2, Len(record.domain))
ZoneAnalysis(zone) ==
    AnalyzedResults(zone,
        TestResults([ i \in 1..probe_count |->
                        IF RandomLabelResolves(zone) THEN <<WildcardIp>>
                        ELSE <<>> ], probe_count))

\* the number of records of `records` equal to r, and in the group of r
Copies(records, r) == Cardinality({ i \in 1..Len(records) : records[i] = r })
GroupSize(records, r) ==
    Cardinality({ i \in 1..Len(records) : GroupKey(records[i]) = GroupKey(r) })

\* the record's value is a wildcard address of the record's zone, which was
\* detected with confidence 0.7 or more
MatchesWildcard(r) ==
    /\ ZoneAnalysis(ZoneOf(r)).has_wildcard
    /\ ZoneAnalysis(ZoneOf(r)).confidence_score >= 7
    /\ r.value.kind = "Ip"
    /\ r.value.text \in SeqRange(ZoneAnalysis(ZoneOf(r)).wildcard_ips)

\* a filter() call on a filter with a base domain has returned
Filtered == f_in # NoneOpt /\ wf.base_domain # NoneOpt

\* C22: filter soundness: a record whose address is a wildcard address of
\* its wildcard zone and whose group has at least `threshold` members is
\* not in the output of filter(), whatever the order of the input and
\* whatever other zones the group has records of.
C22_FilterSound ==
    Filtered =>
        \A i \in 1..Len(f_in[1]) :
            LET r == f_in[1][i]
            IN  (MatchesWildcard(r) /\ GroupSize(f_in[1], r) >= wf.threshold)
                    => r \notin SeqRange(f_out[1])

\* C23: filter() discards a group only if it has at least `threshold`
\* members, its zone is a wildcard zone detected with confidence 0.7 or
\* more and its value is one of the zone's wildcard addresses; every
\* record of any other group is in the output as it was given.
C23_FilterDiscardsOnlyWildcardGroups ==
    Filtered =>
        \A i \in 1..Len(f_in[1]) :
            LET r == f_in[1][i]
            IN  ~(MatchesWildcard(r) /\ GroupSize(f_in[1], r) >= wf.threshold)
                    => Copies(f_out[1], r) = Copies(f_in[1], r)

\* the scan has handled every input domain
ScanDone == scan_pos = Len(scan_input)

\* C24: in a query scan with wildcard filtering and threshold 10, when 11
\* input domains of a wildcard zone resolve to the zone's wildcard address
\* and one further domain of the zone resolves to another address, the
\* output of the scan holds the record of that further domain and nothing
\* else.
C24_ScanKeepsOnlyRealHost ==
    ( /\ ScanDone
      /\ wf.threshold = query_threshold
      /\ Len(scan_input) = 12
      /\ RealHost \in SeqRange(scan_input) )
        => scan_output = <<ARecord(RealHost, RealIp)>>

(***************************************************************************)
(* Properties of the query engine                                          *)
(***************************************************************************)
\* the query that has just returned, returned Ok
ReturnedOk == eq # NoneOpt /\ eq[1].result.kind = "ok"

C27_AckedRecordsReachTheStore ==
    (last_op.op = "flush" /\ last_op.ok) =>
        /\ acked \subseteq SeqRange(store)
        /\ Len(store) >= Cardinality(acked)

\* C28: flush() of the Cassandra exporter closes the input channel of every
\* worker, every worker then writes its partial batch and exits, and
\* flush() returns, after any number of export calls.
C28_FlushClosesAndReturns ==
    (flush_pc = "await") ~>
        ( /\ flush_pc \in {"ok", "err"}
          /\ \A w \in Workers :
                /\ record_senders[w] = 0
                /\ worker[w] # "running"
                /\ batch[w] = <<>> )

\* C29: once a batch has failed all of its retries the failure is counted
\* in errors and nothing but that batch is lost: no record waits in the
\* channel of a worker that has ended, and every export() is still accepted.
C29_OnlyTheFailedBatchIsLost ==
    /\ \A w \in Workers :
          worker[w] = "err" => (metrics.errors >= 1 /\ channel[w] = <<>>)
    /\ last_export # Some(FALSE)

\* what C30 says of a process_batch call that made `n` the limit of its
\* attempts, but for the growth of the retries counter when every attempt
\* has failed
BatchWriteAccounted(r, n) ==
    /\ r.executed <= n
    /\ r.executed >= 1 => r.delays = r.executed - 1
    /\ \A i \in 1..(r.executed - 1) : r.results[i] = "error"
    /\ r.ok <=> (r.executed >= 1 /\ r.results[r.executed] = "ok")
    /\ r.ok => /\ r.total_records = r.batch_size
               /\ r.batches_processed = 1
               /\ r.errors = 0
               /\ r.retries = r.executed - 1
    /\ ~r.ok => /\ r.executed = n
                /\ r.errors = 1
                /\ r.total_records = 0
                /\ r.batches_processed = 0

\* C30 as stated: a batch write is executed at most retry_attempts times
\* with retry_delay between the attempts; the first success stops the
\* retries and adds the batch size to total_records and 1 to
\* batches_processed; when every attempt fails, errors grows by exactly 1,
\* total_records is unchanged and retries has grown by retry_attempts - 1.
C30_AsStated ==
    pb # NoneOpt =>
        /\ BatchWriteAccounted(pb[1], cass_config.retry_attempts)
        /\ ~pb[1].ok => pb[1].retries = cass_config.retry_attempts - 1

\* C30, amended: the same, retries growing by retry_attempts - 1 on a
\* failure when retry_attempts is at least 1; with retry_attempts = 0 no
\* write is executed, the batch counts as an error and retries is unchanged.
C30_RetriesBounded ==
    pb # NoneOpt =>
        /\ BatchWriteAccounted(pb[1], cass_config.retry_attempts)
        /\ ~pb[1].ok =>
              pb[1].retries = IF cass_config.retry_attempts >= 1
                              THEN cass_config.retry_attempts - 1
                              ELSE 0

\* a batch of two records has failed both of its attempts
C30_Witness ==
    /\ pb # NoneOpt
    /\ ~pb[1].ok
    /\ pb[1].batch_size = 2
    /\ pb[1].executed = 2
    /\ pb[1].retries = 1
    /\ metrics.errors >= 1


\* the sizes of the bulk requests that N records in batches of b make
ExpectedSizes(n, b) ==
    [ i \in 1..((n \div b) + (IF n % b > 0 THEN 1 ELSE 0)) |->
        IF i <= n \div b THEN b ELSE n % b ]

WriteSizes == [ i \in 1..Len(writes) |-> writes[i].size ]

\* the export() calls made so far have been followed by a flush(), and no
\* earlier flush() had records to send
ExportsThenFlush ==
    /\ last_op.op = "flush"
    /\ \A i \in 1..Len(writes) : writes[i].by = "flush" => i = Len(writes)

AllWritesOk == \A i \in 1..Len(writes) : writes[i].ok

C32_IoWithoutBufferLock ==
    \A t \in ExportTasks : cx_pc[t] = "io" => cx_lock = NoTask

\* the documents a task holds between the buffer and the store
InTransit(t) == SeqRange(cx_sending[t])

\* the documents whose push has happened
Pushed == (1..cx_exports) \ { cx_doc[t] : t \in ExportTasks }

ConcAllWritesOk == \A i \in 1..Len(cx_bulk) : cx_bulk[i].ok

\* C40: under any interleaving of concurrent export() and flush() calls no
\* bulk write has more than batch_size records and, while all writes
\* succeed, no record is written twice or dropped.
C40_ConcurrentBatchesBounded ==
    /\ \A t \in ExportTasks : Len(cx_sending[t]) <= cx_batch_size
    /\ \A i \in 1..Len(cx_bulk) : cx_bulk[i].size <= cx_batch_size
    /\ ConcAllWritesOk =>
          /\ \A i, j \in 1..Len(cx_store) : cx_store[i] = cx_store[j] => i = j
          /\ Pushed = SeqRange(cx_store) \cup SeqRange(cx_buffer)
                        \cup UNION { InTransit(t) : t \in ExportTasks }


\* the records routed to the workers of instance e
RoutedTo(e) == { fan_routed[e][w] : w \in DOMAIN fan_routed[e] }

\* C33: exports fan out round-robin: after any sequence of export() calls,
\* also with other exporter instances exporting in between, the numbers
\* of records routed to any two workers of one instance differ by at most 1.
C33_RoundRobinBalanced ==
    \A e \in Exporters :
        \A n, m \in RoutedTo(e) : n - m <= 1


\* the enabled sinks in the order run() goes through them
EnabledInOrder == SelectSeq(SinkOrder, LAMBDA s : s \in run_sinks)

AllRecords == [ i \in 1..run_n |-> i ]

\* C34: when the scan completes, flush() is called on every configured
\* sink, in declared order, whatever the result of the flush of an earlier
\* sink, and a sink error does not change the exit code of the run.
C34_EverySinkFlushed ==
    (run_at.pc = "returned" /\ ~run_out_err) =>
        /\ run_flushed = EnabledInOrder
        /\ run_exit = 0

\* run() has left the loop over all_records, and not by an error of the
\* output writer
LoopDone == run_at.pc \notin {"write", "export"} /\ ~run_out_err

\* C35: a failed export() of one record on one sink does not halt the run:
\* the record is still offered to the remaining sinks, and every later
\* record is written to the output and offered to every sink.
C35_ExportFailureDoesNotHalt ==
    LoopDone =>
        /\ run_written = AllRecords
        /\ \A s \in run_sinks : run_offered[s] = AllRecords

\* the first record's export failed on the first of three sinks, and both
\* records have reached the output and all three sinks
C35_Witness ==
    /\ LoopDone
    /\ run_sinks = Sinks
    /\ run_n = 2
    /\ <<1, "elasticsearch">> \in run_failed
    /\ run_offered["mongodb"] = <<1, 2>>
    /\ run_offered["cassandra"] = <<1, 2>>
    /\ run_written = <<1, 2>>


\* C36: no requested record type is silently queried as A: only
\* RecordType::A is sent as A, and every other type that the request has
\* accepted is sent as its own wire type.
C36_NoSilentSubstitution ==
    \A i \in 1..Len(tq_wire) :
        /\ tq_wire[i] = "A" => tq_types[1][i] = "A"
        /\ tq_wire[i] = tq_types[1][i]


\* the places of the input where a line starts
LineStarts(input) ==
    { p \in 1..Len(input) : p = 1 \/ input[p - 1] = "\n" }

\* the places of the line that starts at p: up to the line end or the end
\* of the input
LinePlaces(input, p) ==
    { i \in p..Len(input) : \A j \in p..i : input[j] # "\n" }

\* the places of that line that hold something other than white space
InkPlaces(input, p) == { i \in LinePlaces(input, p) : input[i] # " " }

FirstOf(places) == CHOOSE i \in places : \A j \in places : i <= j

LastOf(places) == CHOOSE i \in places : \A j \in places : i >= j

\* the line is not blank and its first non-whitespace character is not `#`
IsDomainLine(input, p) ==
    /\ InkPlaces(input, p) # {}
    /\ input[FirstOf(InkPlaces(input, p))] # "#"

\* the line without the white space around it
TrimmedLine(input, p) ==
    SubSeq(input, FirstOf(InkPlaces(input, p)), LastOf(InkPlaces(input, p)))

\* the trimmed domain lines that start in the set `starts`, in input order
RECURSIVE DomainLinesFrom(_, _)
DomainLinesFrom(input, starts) ==
    IF starts = {} THEN <<>>
    ELSE LET p == FirstOf(starts)
         IN  (IF IsDomainLine(input, p) THEN <<TrimmedLine(input, p)>>
              ELSE <<>>)
             \o DomainLinesFrom(input, starts \ {p})

DomainLines(input) == DomainLinesFrom(input, LineStarts(input))

\* C37: stream_domains yields exactly the non-empty lines of its input
\* whose first non-whitespace character is not `#`, in input order, each
\* trimmed; blank lines and comment lines yield nothing, and the sequence
\* ends at the end of the input.
C37_StreamYieldsDomainLines ==
    /\ IsPrefix(sd_yielded, DomainLines(sd_input))
    /\ sd_ended => sd_yielded = DomainLines(sd_input) /\ sd_unread = <<>>

\* a comment line, a blank line and an indented domain, read to the end
C37_Witness ==
    /\ sd_ended
    /\ sd_input = <<"#", "\n", "\n", " ", "a">>
    /\ sd_yielded = << <<"a">> >>


\* the batch of item i, counted from 0: items_vec.chunks(batch_size)
BatchOf(i) == (i - 1) \div pcfg.batch_size

\* the records process_stream has collected, those of the batch in
\* progress included
CollectedRecords == all_records \o Flatten(batch_results)

\* no op of a later batch has started while an op of an earlier batch has
\* not come to its end
BatchesDoNotOverlap ==
    \A i, j \in Input :
        BatchOf(i) < BatchOf(j) /\ op_calls[j] > 0 => ipc[i] = "finished"

\* the records of an earlier batch come before those of a later one
RecordsInBatchOrder ==
    \A p, q \in 1..Len(CollectedRecords) :
        p < q => BatchOf(CollectedRecords[p][1]) <= BatchOf(CollectedRecords[q][1])

\* the op of item i comes to its end in this step
OpEnds(i) == ipc[i] = "op" /\ ipc'[i] = "finished"

\* the collected records grow only when an op ends, and then by the
\* records of that op at the end: they are in completion order
RecordsInCompletionOrder ==
    /\ \A i \in Items :
          OpEnds(i) =>
              CollectedRecords' = CollectedRecords \o
                  (IF op_outcome'[i] = "ok" THEN OpRecords(i) ELSE <<>>)
    /\ (\A i \in Items : ~OpEnds(i)) => CollectedRecords' = CollectedRecords

\* C38: process_stream handles the batches strictly one after another: no
\* op of batch k+1 starts before every op of batch k has returned, failed
\* or timed out, so all records of batch k precede all records of batch
\* k+1 in the result, and the records of one batch are in completion order.
C38_BatchesInSequence ==
    /\ [](BatchesDoNotOverlap /\ RecordsInBatchOrder)
    /\ [][RecordsInCompletionOrder]_vars

\* three items in batches of two with both ops of the first batch in
\* flight together: item 2 completed before item 1, and item 3 after both
C38_Witness ==
    /\ ppc = "done"
    /\ pitems = 3
    /\ pcfg.batch_size = 2
    /\ all_records = OpRecords(2) \o OpRecords(1) \o OpRecords(3)


\* put(key, ..) left every other key of the map as it was
OtherKeysKept(key) ==
    /\ DOMAIN cache' = DOMAIN cache
    /\ \A k \in (DOMAIN cache) \ {key} : cache'[k] = cache[k]

\* C39 as stated: put(K, ..) for a key K that is in the cache replaces K's
\* entry only: every other key keeps its entry and the entry count is
\* unchanged, also when the cache is at capacity.
C39_AsStated ==
    [][ \A key \in CacheKeys, args \in PutArgs :
            (key \in DOMAIN cache /\ DnsCachePut(key, args[1], args[2])) =>
                /\ cache'[key] = CachedResponseNew(args[1],
                                    UnwrapOr(args[2], ccfg.default_ttl))
                /\ OtherKeysKept(key)
      ]_vars

\* C39, amended: put(K, ..) for a key K that is in the cache stores K's new
\* entry; below capacity it changes nothing else; at capacity it purges
\* and evicts first as any put does, so other keys can lose their entries
\* and the count can drop, but no other entry is changed and none is added.
C39_OverwriteBelowCapacity ==
    [][ \A key \in CacheKeys, args \in PutArgs :
            (key \in DOMAIN cache /\ DnsCachePut(key, args[1], args[2])) =>
                /\ key \in DOMAIN cache'
                /\ cache'[key] = CachedResponseNew(args[1],
                                    UnwrapOr(args[2], ccfg.default_ttl))
                /\ MapLen(cache) < ccfg.max_size => OtherKeysKept(key)
                /\ DOMAIN cache' \subseteq DOMAIN cache
                /\ \A k \in (DOMAIN cache') \ {key} : cache'[k] = cache[k]
      ]_vars

\* a put has replaced the aged entry of its key in a cache below capacity
\* that holds another key too
C39_Witness ==
    /\ put_ret.renewed
    /\ Cardinality(put_ret.found) = 2
    /\ Cardinality(put_ret.found) < ccfg.max_size
    /\ DOMAIN cache = put_ret.found
    /\ cache[put_ret.key].age = 0
    /\ \E k \in put_ret.found : cache[k].age > 0

====
